---- MODULE Spec2Model ----
(***************************************************************************)
(* Verification model of the timeline engine of extension/content.js       *)
(* (class TimelineManager, second definition, lines 3140-6529).            *)
(*                                                                         *)
(* Spec       : the scheduling core of one TimelineManager instance: the   *)
(*              marker rebuild with its zero-turns retry, the debounced    *)
(*              rebuild, the per-frame scroll-sync gate, the active-marker *)
(*              decision with its commit timer, resize and destroy().      *)
(* SpecActive : the active-marker scan of computeActiveByScroll as a pure  *)
(*              function over bounded marker lists and reference lines.    *)
(*                                                                         *)
(* SpecGate   : the same operations with resize signals and the per-frame   *)
(*              accounting of passes switched on, at a fixed time.         *)
(*                                                                         *)
(* SpecGeometry, SpecEffectiveGap, SpecMinGap, SpecTrackSync,              *)
(* SpecPlacement, SpecTruncate : updateTimelineGeometry, getEffectiveMinGap,*)
(*              applyMinGap, syncTimelineTrackToMain, computePlacementInfo *)
(*              and truncateToThreeLines, each applied once to an input    *)
(*              drawn from bounded sets and kept with its result in call.  *)
(* SpecDrag   : one drag gesture of the bar or of the TOC panel, its save  *)
(*              and a restore in the same viewport.                        *)
(* SpecPersist : init, the position restores, the drag saves and        *)
(*              updateSettings with storage reads and writes that may fail. *)
(* SpecDiscovery : findCriticalElements, the URL-change attempts and the    *)
(*              initialization interval with their retry counters.         *)
(* SpecListeners : the listeners attached by init, updateSettings and      *)
(*              refreshContent, and those destroy() removes.               *)
(* SpecResize, SpecDebounce, SpecLongPress : the resize handlers, the      *)
(*              debounced rebuild with due times, and the long press that  *)
(*              starts a drag of the bar or of the TOC panel.              *)
(* SpecInstances : initializeTimeline and its callers, init and            *)
(*              refreshContent of each instance, suspended at their awaits.*)
(* SpecTooltip, SpecTooltipLive : showTooltipForDot and hideTooltip with   *)
(*              the show's frame callback and the hide's timeout.          *)
(*                                                                         *)
(* A JavaScript Number is an exact fraction [num, den] in lowest terms;    *)
(* den = 0 carries NaN (num = 0) and the infinities.                       *)
(*                                                                         *)
(* Time is performance.now() in milliseconds; it advances in steps of      *)
(* TimeStep.  The active-change timeout fires at any time at or after its  *)
(* due time (the browser never fires a timeout early, it may fire it       *)
(* late).  The delays of the other timeouts (zero-turns retry 350 ms,      *)
(* debounced rebuild 350 ms, debounced list refresh 150 ms) are not        *)
(* modelled: such a timeout fires at any step after it was armed.          *)
(***************************************************************************)
EXTENDS Integers, Sequences, FiniteSets

VARIABLES
    now,                  \* performance.now()
    doc,                  \* user-turn elements currently in the document
    scrollTop,            \* scrollContainer.scrollTop
    scrollContainer,      \* TRUE when scrollContainer / conversationContainer / ui.timelineBar are set
    destroyed,            \* destroy() has returned
    markers,              \* this.markers : sequence of [id, element]
    markersVersion,       \* this.markersVersion
    dots,                 \* .timeline-dot nodes rendered in the track, by marker id
    activeDot,            \* marker id of the dot carrying the class 'active' (or NULL)
    activeTurnId,         \* this.activeTurnId
    pendingActiveId,      \* this.pendingActiveId
    lastActiveChangeTime, \* this.lastActiveChangeTime
    activeChangeTimer,    \* this.activeChangeTimer (timeout handle or NULL)
    commitTimers,         \* outstanding active-change timeouts
    scrollRafId,          \* this.scrollRafId (frame handle or NULL)
    rafCallbacks,         \* scroll-sync callbacks requested for the next frame
    frameQueue,           \* callbacks of the frame that is running
    zeroTurnsTimer,       \* this.zeroTurnsTimer (timeout handle or NULL)
    zeroTimers,           \* outstanding zero-turns retry timeouts
    rebuildTimeout,       \* `timeout` of debounce(recalculateAndRenderMarkers, 350)
    rebuildTimers,        \* outstanding debounced-rebuild timeouts
    tocTimeout,           \* `timeout` of the debounced TOC update
    tocTimers,            \* outstanding debounced TOC update timeouts
    gatePasses,           \* scroll-sync passes run in the current frame
    renderRuns,           \* geometry/sync/render runs since the frame began (saturating)
    requests,             \* scheduleScrollSync calls since the frame began (saturating)
    audit,                \* per-frame accounting switched on (SpecGate)
    burst,                \* candidates stored since the commit timer was armed (history)
    firedBurst,           \* the burst committed by the latest timer firing (history)
    inTops,               \* SpecActive: marker offsets
    inRef1,               \* SpecActive: first reference line (x20)
    inRef2,               \* SpecActive: second reference line (x20)
    outIdx1,              \* SpecActive: index selected for inRef1 (0 = not computed)
    outIdx2,              \* SpecActive: index selected for inRef2 (0 = not computed)
    call                  \* function-level specifications: the call under study,
                          \* its arguments and, once it has returned, its results

schedVars == <<now, doc, scrollTop, scrollContainer, destroyed, markers, markersVersion,
               dots, activeDot, activeTurnId, pendingActiveId, lastActiveChangeTime,
               activeChangeTimer, commitTimers, scrollRafId, rafCallbacks, frameQueue,
               zeroTurnsTimer, zeroTimers, rebuildTimeout, rebuildTimers,
               tocTimeout, tocTimers, gatePasses, renderRuns, requests, audit,
               burst, firedBurst>>
activeVars == <<inTops, inRef1, inRef2, outIdx1, outIdx2>>
pureVars == <<activeVars, call>>
vars == <<schedVars, pureVars>>

----
\* Bounds of the model

MaxTurns == 3
MaxTime == 180
TimeStep == 60
MaxVersion == 2
CountCap == 2

NULL == 0
Elements == 1..MaxTurns
\* the documents: a conversation of the first k turns (turns are appended; a
\* branch switch or a navigation drops the tail or everything)
Docs == {1..k : k \in 0..MaxTurns}
ScrollTops == {0, 75}
ClientHeights == {100}

\* Program constants
minActiveChangeInterval == 120
\* DEFAULT_SETTINGS.enableTOC
enableTOC == TRUE

----
\* Helpers

Min(a, b) == IF a < b THEN a ELSE b
Max(a, b) == IF a > b THEN a ELSE b
Bump(c) == Min(c + 1, CountCap)
Count(c) == IF audit THEN Bump(c) ELSE c

\* el.offsetTop of the i-th turn of the conversation: 0, 100, 250, 400, ...
OffsetOf(e) == IF e = 1 THEN 0 ELSE IF e = 2 THEN 100 ELSE 100 + 150 * (e - 2)

\* querySelectorAll returns the turns in document order
RECURSIVE getUserTurnElements(_)
getUserTurnElements(S) ==
    IF S = {} THEN <<>>
    ELSE LET m == CHOOSE x \in S : \A y \in S : x <= y
         IN <<m>> \o getUserTurnElements(S \ {m})

\* getTurnId: dataset.turnId of the element
getTurnId(e) == e

\* setTimeout / requestAnimationFrame return a handle no outstanding callback has
NewHandle(T) == CHOOSE i \in 1..(Cardinality(T) + 1) : \A t \in T : t.id # i

\* clearTimeout / cancelAnimationFrame
Cancel(T, h) == {t \in T : t.id # h}

Ids(ms) == {ms[i].id : i \in 1..Len(ms)}
IdSeq(ms) == [i \in 1..Len(ms) |-> ms[i].id]

----
\* computeActiveByScroll, lines 5109-5124: the scan for the active marker.
\* Reference lines are carried multiplied by 20, so that
\* ref = scrollTop + clientHeight * 0.45 stays an integer.

Ref20(st, ch) == 20 * st + 9 * ch

\* mutant: the comparison written `top < ref`
QualifiesStrictly(top, ref20) == 20 * top < ref20

\* `top <= ref`
Qualifies(top, ref20) == 20 * top <= ref20

RECURSIVE ScanActive(_, _, _, _)
ScanActive(tops, ref20, i, cur) ==
    IF i > Len(tops) THEN cur
    ELSE IF Qualifies(tops[i], ref20) THEN ScanActive(tops, ref20, i + 1, i)
    ELSE cur

\* mutant: the scan starts from the last marker (the default of a rebuild)
\* instead of markers[0]
ActiveIndexFromLast(tops, ref20) == ScanActive(tops, ref20, 1, Len(tops))

\* index (1-based) of the marker whose id becomes activeId; tops is not empty
ActiveIndexByScroll(tops, ref20) == ScanActive(tops, ref20, 1, 1)

\* m.element.getBoundingClientRect().top - containerRect.top + scrollTop:
\* the offset of an attached element; a detached element has an all-zero
\* rectangle, and the container's own top is 0 in this layout.
MarkerTop(m) == IF m.element \in doc THEN OffsetOf(m.element) ELSE scrollTop

MarkerTops == [i \in 1..Len(markers) |-> MarkerTop(markers[i])]

----
\* History of the coalescing burst

\* k, first, last: the candidates stored since the commit timer was armed;
\* sel: the id selected by the latest evaluation made while a commit timer is
\* outstanding (NULL after a rebuild, a firing or destroy)
EmptyBurst == [k |-> 0, first |-> NULL, last |-> NULL, sel |-> NULL]
Extend(b, id) == [k |-> Bump(b.k),
                  first |-> IF b.k = 0 THEN id ELSE b.first,
                  last |-> id,
                  sel |-> id]
\* an evaluation that stored no candidate selected id
Selected(id) == IF activeChangeTimer = NULL THEN EmptyBurst
                ELSE [EmptyBurst EXCEPT !.sel = id]

----
\* scheduleScrollSync, lines 5097-5107

\* mutant: scheduleScrollSync without its `scrollRafId !== null` guard
GateAlwaysOpen == TRUE

\* `if (this.scrollRafId !== null) return;`
GateOpen == scrollRafId = NULL

scheduleScrollSync ==
    /\ requests' = Count(requests)
    /\ IF ~GateOpen THEN UNCHANGED <<scrollRafId, rafCallbacks>>
       ELSE LET h == NewHandle(rafCallbacks)
            IN /\ scrollRafId' = h
               /\ rafCallbacks' = rafCallbacks \cup {[id |-> h]}

----
\* the 'active' class of the dots, lines 4273-4276 and 4906

\* mutant: the toggle compares with the pending candidate when one is stored
HighlightedPending(ids, active) ==
    LET shown == IF pendingActiveId # NULL THEN pendingActiveId ELSE active
    IN IF \E i \in 1..Len(ids) : ids[i] = shown THEN shown ELSE NULL

\* `classList.toggle('active', marker.id === this.activeTurnId)` over the dots
\* ids: the id of the dot left with the class
Highlighted(ids, active) ==
    IF active # NULL /\ \E i \in 1..Len(ids) : ids[i] = active THEN active ELSE NULL

----
\* computeActiveByScroll, lines 5109-5149

\* mutant: the timeout armed at every pending candidate
MayArmAlways == TRUE

\* `if (!this.activeChangeTimer)`
MayArmActiveChangeTimer == activeChangeTimer = NULL

\* mutant: pendingActiveId written only when nothing is pending yet
StoredFirstCandidate(activeId) ==
    IF pendingActiveId # NULL THEN pendingActiveId ELSE activeId

\* the id written to pendingActiveId by an evaluation that selected activeId
StoredCandidate(activeId) == activeId

\* rendered: the highlight left by the updateVirtualRangeAndRender that runs
\* before the evaluation in the same frame (line 5103)
computeActiveByScroll(rendered) ==
    IF ~scrollContainer \/ Len(markers) = 0
    THEN /\ UNCHANGED <<activeTurnId, pendingActiveId, lastActiveChangeTime,
                        activeChangeTimer, commitTimers>>
         /\ activeDot' = rendered
         /\ burst' = EmptyBurst
    ELSE
      LET ref20 == Ref20(scrollTop, CHOOSE h \in ClientHeights : TRUE)
          activeId == markers[ActiveIndexByScroll(MarkerTops, ref20)].id
          since == now - lastActiveChangeTime
      IN
      IF activeTurnId # activeId
      THEN IF since < minActiveChangeInterval
           THEN /\ pendingActiveId' = StoredCandidate(activeId)
                /\ IF MayArmActiveChangeTimer
                   THEN LET h == NewHandle(commitTimers)
                            delay == Max(minActiveChangeInterval - since, 0)
                        IN /\ activeChangeTimer' = h
                           /\ commitTimers' = commitTimers \cup
                                {[id |-> h, due |-> now + delay, ver |-> markersVersion]}
                   ELSE UNCHANGED <<activeChangeTimer, commitTimers>>
                /\ UNCHANGED <<activeTurnId, lastActiveChangeTime>>
                /\ activeDot' = rendered
                /\ burst' = Extend(burst, activeId)
           ELSE /\ activeTurnId' = activeId
                /\ lastActiveChangeTime' = now
                /\ UNCHANGED <<pendingActiveId, activeChangeTimer, commitTimers>>
                /\ activeDot' = Highlighted(dots', activeId)
                /\ burst' = Selected(activeId)
      ELSE /\ UNCHANGED <<activeTurnId, pendingActiveId, lastActiveChangeTime,
                          activeChangeTimer, commitTimers>>
           /\ activeDot' = rendered
           /\ burst' = Selected(activeId)

\* mutant: the timer callback commits whatever is pending
CommitsAlways == TRUE

\* `if (this.pendingActiveId && this.pendingActiveId !== this.activeTurnId)`
CommitsPending == pendingActiveId # NULL /\ pendingActiveId # activeTurnId

\* the setTimeout callback of lines 5133-5141
ActiveChangeTimerFire(t) ==
    /\ t \in commitTimers
    /\ frameQueue = {}
    /\ now >= t.due
    /\ commitTimers' = commitTimers \ {t}
    /\ activeChangeTimer' = NULL
    /\ IF CommitsPending
       THEN /\ activeTurnId' = pendingActiveId
            /\ activeDot' = Highlighted(dots, pendingActiveId)
            /\ lastActiveChangeTime' = now
       ELSE UNCHANGED <<activeTurnId, activeDot, lastActiveChangeTime>>
    /\ pendingActiveId' = NULL
    /\ firedBurst' = burst
    /\ burst' = EmptyBurst
    /\ UNCHANGED <<now, doc, scrollTop, scrollContainer, destroyed, markers,
                   markersVersion, dots, scrollRafId, rafCallbacks, frameQueue,
                   zeroTurnsTimer, zeroTimers, rebuildTimeout, rebuildTimers,
                   tocTimeout, tocTimers, gatePasses, renderRuns, requests>>
    /\ UNCHANGED <<audit, pureVars>>

----
\* debounce, lines 4282-4296: clearTimeout(timeout); timeout = setTimeout(...)

debouncedTOCUpdate ==
    LET rest == Cancel(tocTimers, tocTimeout)
        h == NewHandle(rest)
    IN /\ tocTimeout' = h
       /\ tocTimers' = rest \cup {[id |-> h]}

debouncedRecalculateAndRender ==
    LET rest == Cancel(rebuildTimers, rebuildTimeout)
        h == NewHandle(rest)
    IN /\ rebuildTimeout' = h
       /\ rebuildTimers' = rest \cup {[id |-> h]}

----
\* recalculateAndRenderMarkers, lines 3615-3706.
\* turns: the user turns found in the document; zt, zts: this.zeroTurnsTimer
\* and the outstanding retry timeouts when the call is made.

\* `if (!this.zeroTurnsTimer)`
MayArmZeroTurnsTimer(zt) == zt = NULL

\* mutant: a rebuild that finds no turns wipes the markers at once
MarkersWipedOnZeroTurns == <<>>

\* the marker list after a rebuild that found no turns (the early return of
\* lines 3624-3632)
MarkersOnZeroTurns == markers

BuildMarkers(turns) ==
    LET els == getUserTurnElements(turns)
    IN [i \in 1..Len(els) |-> [id |-> getTurnId(els[i]), element |-> els[i]]]

\* lines 3678-3680: `if (!this.activeTurnId && this.markers.length > 0)`
ActiveAfterRebuild(ms) ==
    IF activeTurnId = NULL /\ Len(ms) > 0 THEN ms[Len(ms)].id ELSE activeTurnId

recalculateAndRenderMarkers(turns, zt, zts) ==
    IF ~scrollContainer
    THEN /\ zeroTurnsTimer' = zt
         /\ zeroTimers' = zts
         /\ UNCHANGED <<markers, markersVersion, dots, activeDot, activeTurnId, scrollRafId,
                        rafCallbacks, requests, tocTimeout, tocTimers, renderRuns, burst>>
    ELSE IF turns = {}
    THEN /\ IF MayArmZeroTurnsTimer(zt)
            THEN LET h == NewHandle(zts)
                 IN /\ zeroTurnsTimer' = h
                    /\ zeroTimers' = zts \cup {[id |-> h]}
            ELSE /\ zeroTurnsTimer' = zt
                 /\ zeroTimers' = zts
         /\ markers' = MarkersOnZeroTurns
         /\ dots' = IF markers' = markers THEN dots ELSE IdSeq(markers')
         /\ activeDot' = IF markers' = markers THEN activeDot ELSE NULL
         /\ UNCHANGED <<markersVersion, activeTurnId, scrollRafId,
                        rafCallbacks, requests, tocTimeout, tocTimers, renderRuns, burst>>
    ELSE /\ zeroTurnsTimer' = NULL
         /\ zeroTimers' = IF zt # NULL THEN Cancel(zts, zt) ELSE zts
         /\ markers' = BuildMarkers(turns)
         /\ markersVersion' = markersVersion + 1
         \* updateTimelineGeometry, syncTimelineTrackToMain, updateVirtualRangeAndRender
         /\ activeTurnId' = ActiveAfterRebuild(markers')
         /\ dots' = IdSeq(markers')
         /\ activeDot' = Highlighted(dots', activeTurnId')
         /\ renderRuns' = Count(renderRuns)
         /\ scheduleScrollSync
         /\ IF enableTOC THEN debouncedTOCUpdate ELSE UNCHANGED <<tocTimeout, tocTimers>>
         /\ burst' = EmptyBurst

\* the version counter is capped by MaxVersion
CanRebuild(turns) == turns = {} \/ ~scrollContainer \/ markersVersion < MaxVersion

----
\* Operations of the instance

\* init(), lines 3284-3324: containers found, UI injected, listeners and
\* observers registered
InitTimeline ==
    /\ ~scrollContainer /\ ~destroyed
    /\ scrollContainer' = TRUE
    /\ firedBurst' = EmptyBurst
    /\ UNCHANGED <<now, doc, scrollTop, destroyed, markers, markersVersion, dots, activeDot,
                   activeTurnId, pendingActiveId, lastActiveChangeTime,
                   activeChangeTimer, commitTimers, scrollRafId, rafCallbacks,
                   frameQueue, zeroTurnsTimer, zeroTimers, rebuildTimeout,
                   rebuildTimers, tocTimeout, tocTimers, gatePasses, renderRuns,
                   requests, burst>>
    /\ UNCHANGED <<audit, pureVars>>

\* The document changes; the MutationObserver callback of lines 3803-3807 runs:
\* ensureContainersUpToDate (rebinding, lines 3926-3990, rebuilds at once when
\* the conversation root was replaced), then the debounced rebuild.
DocMutation(newDoc, rebind) ==
    /\ scrollContainer /\ frameQueue = {}
    /\ newDoc # doc
    /\ doc' = newDoc
    /\ debouncedRecalculateAndRender
    /\ IF rebind /\ newDoc # {}
       THEN /\ CanRebuild(newDoc)
            /\ recalculateAndRenderMarkers(newDoc, zeroTurnsTimer, zeroTimers)
       ELSE UNCHANGED <<markers, markersVersion, dots, activeDot, activeTurnId, scrollRafId,
                        rafCallbacks, requests, tocTimeout, tocTimers, renderRuns,
                        burst, zeroTurnsTimer, zeroTimers>>
    /\ firedBurst' = EmptyBurst
    /\ UNCHANGED <<now, scrollTop, scrollContainer, destroyed, pendingActiveId,
                   lastActiveChangeTime, activeChangeTimer, commitTimers,
                   frameQueue, gatePasses>>
    /\ UNCHANGED <<audit, pureVars>>

\* the timeout of debouncedRecalculateAndRender fires
RebuildTimerFire(t) ==
    /\ t \in rebuildTimers /\ frameQueue = {}
    /\ CanRebuild(doc)
    /\ rebuildTimers' = rebuildTimers \ {t}
    /\ recalculateAndRenderMarkers(doc, zeroTurnsTimer, zeroTimers)
    /\ firedBurst' = EmptyBurst
    /\ UNCHANGED <<now, doc, scrollTop, scrollContainer, destroyed, pendingActiveId,
                   lastActiveChangeTime, activeChangeTimer, commitTimers,
                   frameQueue, rebuildTimeout, gatePasses>>
    /\ UNCHANGED <<audit, pureVars>>

\* the zero-turns retry timeout of lines 3626-3629 fires
ZeroTurnsTimerFire(t) ==
    /\ t \in zeroTimers /\ frameQueue = {}
    /\ CanRebuild(doc)
    /\ recalculateAndRenderMarkers(doc, NULL, zeroTimers \ {t})
    /\ firedBurst' = EmptyBurst
    /\ UNCHANGED <<now, doc, scrollTop, scrollContainer, destroyed, pendingActiveId,
                   lastActiveChangeTime, activeChangeTimer, commitTimers,
                   frameQueue, rebuildTimeout, rebuildTimers, gatePasses>>
    /\ UNCHANGED <<audit, pureVars>>

\* the timeout of debouncedTOCUpdate fires: refreshes the list view only
TocTimerFire(t) ==
    /\ t \in tocTimers /\ frameQueue = {}
    /\ tocTimers' = tocTimers \ {t}
    /\ firedBurst' = EmptyBurst
    /\ UNCHANGED <<now, doc, scrollTop, scrollContainer, destroyed, markers,
                   markersVersion, dots, activeDot, activeTurnId, pendingActiveId,
                   lastActiveChangeTime, activeChangeTimer, commitTimers,
                   scrollRafId, rafCallbacks, frameQueue, zeroTurnsTimer, zeroTimers,
                   rebuildTimeout, rebuildTimers, tocTimeout, gatePasses,
                   renderRuns, requests, burst>>
    /\ UNCHANGED <<audit, pureVars>>

\* refreshContent(), lines 3898-3923
RefreshContent ==
    /\ scrollContainer /\ frameQueue = {}
    /\ CanRebuild(doc)
    /\ recalculateAndRenderMarkers(doc, zeroTurnsTimer, zeroTimers)
    /\ firedBurst' = EmptyBurst
    /\ UNCHANGED <<now, doc, scrollTop, scrollContainer, destroyed, pendingActiveId,
                   lastActiveChangeTime, activeChangeTimer, commitTimers,
                   frameQueue, rebuildTimeout, rebuildTimers, gatePasses>>
    /\ UNCHANGED <<audit, pureVars>>

\* a scroll of the main container: onScroll, line 4114
Scroll(st) ==
    /\ scrollContainer /\ frameQueue = {}
    /\ st # scrollTop
    /\ scrollTop' = st
    /\ scheduleScrollSync
    /\ firedBurst' = EmptyBurst
    /\ UNCHANGED <<now, doc, scrollContainer, destroyed, markers, markersVersion,
                   dots, activeDot, activeTurnId, pendingActiveId, lastActiveChangeTime,
                   activeChangeTimer, commitTimers, frameQueue, zeroTurnsTimer,
                   zeroTimers, rebuildTimeout, rebuildTimers, tocTimeout, tocTimers,
                   gatePasses, renderRuns, burst>>
    /\ UNCHANGED <<audit, pureVars>>

\* the IntersectionObserver callback, lines 3875-3888
IntersectionChange ==
    /\ scrollContainer /\ frameQueue = {}
    /\ GateOpen \/ audit
    /\ scheduleScrollSync
    /\ firedBurst' = EmptyBurst
    /\ UNCHANGED <<now, doc, scrollTop, scrollContainer, destroyed, markers,
                   markersVersion, dots, activeDot, activeTurnId, pendingActiveId,
                   lastActiveChangeTime, activeChangeTimer, commitTimers, frameQueue,
                   zeroTurnsTimer, zeroTimers, rebuildTimeout, rebuildTimers,
                   tocTimeout, tocTimers, gatePasses, renderRuns, burst>>
    /\ UNCHANGED <<audit, pureVars>>

\* onWindowResize / onVisualViewportResize / the ResizeObserver callback,
\* lines 4161-4207 and 3866-3870: updateTimelineGeometry,
\* syncTimelineTrackToMain and updateVirtualRangeAndRender run at once
Resize ==
    /\ scrollContainer /\ frameQueue = {}
    /\ renderRuns < CountCap
    /\ renderRuns' = Count(renderRuns)
    /\ dots' = IdSeq(markers)
    /\ activeDot' = Highlighted(dots', activeTurnId)
    /\ firedBurst' = EmptyBurst
    /\ UNCHANGED <<now, doc, scrollTop, scrollContainer, destroyed, markers,
                   markersVersion, activeTurnId, pendingActiveId,
                   lastActiveChangeTime, activeChangeTimer, commitTimers,
                   scrollRafId, rafCallbacks, frameQueue, zeroTurnsTimer, zeroTimers,
                   rebuildTimeout, rebuildTimers, tocTimeout, tocTimers,
                   gatePasses, requests, burst>>
    /\ UNCHANGED <<audit, pureVars>>

\* the browser starts an animation frame: the callbacks requested so far run
BeginFrame ==
    /\ frameQueue = {}
    /\ rafCallbacks # {} \/ gatePasses # 0 \/ renderRuns # 0 \/ requests # 0
    /\ frameQueue' = rafCallbacks
    /\ rafCallbacks' = {}
    /\ gatePasses' = 0
    /\ renderRuns' = 0
    /\ requests' = 0
    /\ firedBurst' = EmptyBurst
    /\ UNCHANGED <<now, doc, scrollTop, scrollContainer, destroyed, markers,
                   markersVersion, dots, activeDot, activeTurnId, pendingActiveId,
                   lastActiveChangeTime, activeChangeTimer, commitTimers,
                   scrollRafId, zeroTurnsTimer, zeroTimers, rebuildTimeout,
                   rebuildTimers, tocTimeout, tocTimers, burst>>
    /\ UNCHANGED <<audit, pureVars>>

\* the requestAnimationFrame callback of scheduleScrollSync, lines 5099-5106
ScrollSyncFrame(c) ==
    /\ c \in frameQueue
    /\ frameQueue' = frameQueue \ {c}
    /\ scrollRafId' = NULL
    /\ dots' = IF scrollContainer THEN IdSeq(markers) ELSE dots
    /\ computeActiveByScroll(IF scrollContainer THEN Highlighted(dots', activeTurnId)
                             ELSE activeDot)
    /\ gatePasses' = Count(gatePasses)
    /\ renderRuns' = Count(renderRuns)
    /\ firedBurst' = EmptyBurst
    /\ UNCHANGED <<now, doc, scrollTop, scrollContainer, destroyed, markers,
                   markersVersion, rafCallbacks, zeroTurnsTimer, zeroTimers,
                   rebuildTimeout, rebuildTimers, tocTimeout, tocTimers, requests>>
    /\ UNCHANGED <<audit, pureVars>>

\* destroy(), lines 5175-5311
destroy ==
    /\ ~destroyed /\ frameQueue = {}
    /\ destroyed' = TRUE
    /\ scrollRafId' = NULL
    /\ rafCallbacks' = IF scrollRafId # NULL THEN Cancel(rafCallbacks, scrollRafId)
                       ELSE rafCallbacks
    /\ dots' = <<>>
    /\ activeDot' = NULL
    /\ markers' = <<>>
    /\ activeTurnId' = NULL
    /\ scrollContainer' = FALSE
    /\ activeChangeTimer' = NULL
    /\ commitTimers' = IF activeChangeTimer # NULL
                       THEN Cancel(commitTimers, activeChangeTimer) ELSE commitTimers
    /\ pendingActiveId' = NULL
    /\ burst' = EmptyBurst
    /\ firedBurst' = EmptyBurst
    /\ UNCHANGED <<now, doc, scrollTop, markersVersion, lastActiveChangeTime,
                   frameQueue, zeroTurnsTimer, zeroTimers, rebuildTimeout,
                   rebuildTimers, tocTimeout, tocTimers, gatePasses, renderRuns,
                   requests>>
    /\ UNCHANGED <<audit, pureVars>>

\* performance.now() advances
Tick ==
    /\ frameQueue = {}
    /\ now + TimeStep <= MaxTime
    /\ now' = now + TimeStep
    /\ firedBurst' = EmptyBurst
    /\ UNCHANGED <<doc, scrollTop, scrollContainer, destroyed, markers,
                   markersVersion, dots, activeDot, activeTurnId, pendingActiveId,
                   lastActiveChangeTime, activeChangeTimer, commitTimers,
                   scrollRafId, rafCallbacks, frameQueue, zeroTurnsTimer, zeroTimers,
                   rebuildTimeout, rebuildTimers, tocTimeout, tocTimers,
                   gatePasses, renderRuns, requests, burst>>
    /\ UNCHANGED <<audit, pureVars>>

----
\* no function-level call under study
NoCall == [fn |-> "none", done |-> FALSE]

ActiveIdle ==
    /\ inTops = <<>> /\ inRef1 = 0 /\ inRef2 = 0 /\ outIdx1 = 0 /\ outIdx2 = 0

PureIdle == ActiveIdle /\ call = NoCall

\* the state after the constructor, lines 3141-3267
Constructed(auditing) ==
    /\ now = 0
    /\ doc \in Docs
    /\ scrollTop = 0
    /\ scrollContainer = FALSE
    /\ destroyed = FALSE
    /\ markers = <<>>
    /\ markersVersion = 0
    /\ dots = <<>>
    /\ activeDot = NULL
    /\ activeTurnId = NULL
    /\ pendingActiveId = NULL
    /\ lastActiveChangeTime = 0
    /\ activeChangeTimer = NULL
    /\ commitTimers = {}
    /\ scrollRafId = NULL
    /\ rafCallbacks = {}
    /\ frameQueue = {}
    /\ zeroTurnsTimer = NULL
    /\ zeroTimers = {}
    /\ rebuildTimeout = NULL
    /\ rebuildTimers = {}
    /\ tocTimeout = NULL
    /\ tocTimers = {}
    /\ gatePasses = 0
    /\ renderRuns = 0
    /\ requests = 0
    /\ audit = auditing
    /\ burst = EmptyBurst
    /\ firedBurst = EmptyBurst

Init == Constructed(FALSE) /\ PureIdle

Next ==
    \/ InitTimeline
    \/ \E d \in Docs : \E rebind \in BOOLEAN : DocMutation(d, rebind)
    \/ \E t \in rebuildTimers : RebuildTimerFire(t)
    \/ \E t \in zeroTimers : ZeroTurnsTimerFire(t)
    \/ \E t \in tocTimers : TocTimerFire(t)
    \/ RefreshContent
    \/ \E st \in ScrollTops : Scroll(st)
    \/ IntersectionChange
    \/ BeginFrame
    \/ \E c \in frameQueue : ScrollSyncFrame(c)
    \/ \E t \in commitTimers : ActiveChangeTimerFire(t)
    \/ destroy
    \/ Tick

Spec == Init /\ [][Next]_vars

----
\* SpecGate: the signals of one or more frames at a fixed time, with the
\* per-frame accounting switched on

InitGate == Constructed(TRUE) /\ PureIdle

NextGate ==
    \/ InitTimeline
    \/ \E d \in Docs : \E rebind \in BOOLEAN : DocMutation(d, rebind)
    \/ \E t \in rebuildTimers : RebuildTimerFire(t)
    \/ \E t \in zeroTimers : ZeroTurnsTimerFire(t)
    \/ \E t \in tocTimers : TocTimerFire(t)
    \/ RefreshContent
    \/ \E st \in ScrollTops : Scroll(st)
    \/ IntersectionChange
    \/ Resize
    \/ BeginFrame
    \/ \E c \in frameQueue : ScrollSyncFrame(c)
    \/ destroy

SpecGate == InitGate /\ [][NextGate]_vars

----
\* SpecActive: the scan of computeActiveByScroll applied to bounded inputs

MaxMarkers == 3
Tops == {0, 100, 250}
ActiveScrollTops == {0, 55, 75, 205, 250}

RefLines == {Ref20(st, ch) : st \in ActiveScrollTops, ch \in ClientHeights}

TopLists == UNION {[1..n -> Tops] : n \in 1..MaxMarkers}

InitActive ==
    /\ \E d \in {{}} : doc = d /\ Constructed(FALSE)
    /\ call = NoCall
    /\ inTops \in TopLists
    /\ inRef1 \in RefLines
    /\ inRef2 \in RefLines
    /\ outIdx1 = 0
    /\ outIdx2 = 0

EvaluateFirst ==
    /\ outIdx1 = 0
    /\ outIdx1' = ActiveIndexByScroll(inTops, inRef1)
    /\ UNCHANGED <<schedVars, inTops, inRef1, inRef2, outIdx2, call>>

EvaluateSecond ==
    /\ outIdx2 = 0
    /\ outIdx2' = ActiveIndexByScroll(inTops, inRef2)
    /\ UNCHANGED <<schedVars, inTops, inRef1, inRef2, outIdx1, call>>

NextActive == EvaluateFirst \/ EvaluateSecond

SpecActive == InitActive /\ [][NextActive]_vars

----
\* JavaScript numbers.  A Number is carried as an exact fraction
\* [num, den] with den > 0; den = 0 carries the values a division by zero
\* produces: 0/0 is NaN, x/0 is +Infinity or -Infinity by the sign of x.
\* The rounding of doubles is not modelled.

Num(i) == [num |-> i, den |-> 1]
NaN == [num |-> 0, den |-> 0]
IsNaN(a) == a.den = 0 /\ a.num = 0
IsFinite(a) == a.den # 0
Sign(i) == IF i > 0 THEN 1 ELSE IF i < 0 THEN -1 ELSE 0
Abs(i) == IF i < 0 THEN -i ELSE i

\* a < b, a <= b, a = b on Numbers; every comparison with NaN is false
NumLT(a, b) == ~IsNaN(a) /\ ~IsNaN(b) /\
    IF a.den = 0 /\ b.den = 0 THEN a.num < b.num
    ELSE IF a.den = 0 THEN a.num < 0
    ELSE IF b.den = 0 THEN b.num > 0
    ELSE a.num * b.den < b.num * a.den
NumEQ(a, b) == ~IsNaN(a) /\ ~IsNaN(b) /\
    IF a.den = 0 \/ b.den = 0 THEN a.den = b.den /\ a.num = b.num
    ELSE a.num * b.den = b.num * a.den
NumLE(a, b) == NumLT(a, b) \/ NumEQ(a, b)

RECURSIVE Gcd(_, _)
Gcd(a, b) == IF b = 0 THEN a ELSE Gcd(b, a % b)

\* the fraction n/d, d > 0, in lowest terms
Fraction(n, d) ==
    LET g == Gcd(Abs(n), d)
    IN [num |-> n \div g, den |-> d \div g]

\* + - * / on finite Numbers (the operands of the modelled code are finite)
NumAdd(a, b) ==
    IF a.den = 0 \/ b.den = 0 THEN NaN
    ELSE Fraction(a.num * b.den + b.num * a.den, a.den * b.den)
NumSub(a, b) ==
    IF a.den = 0 \/ b.den = 0 THEN NaN
    ELSE Fraction(a.num * b.den - b.num * a.den, a.den * b.den)
NumMul(a, b) ==
    IF a.den = 0 \/ b.den = 0 THEN NaN
    ELSE Fraction(a.num * b.num, a.den * b.den)
NumDiv(a, b) ==
    IF a.den = 0 \/ b.den = 0 THEN NaN
    ELSE IF b.num = 0 THEN [num |-> Sign(a.num), den |-> 0]
    ELSE Fraction(a.num * b.den * Sign(b.num), a.den * Abs(b.num))

\* Math.max, Math.min: NaN when an argument is NaN
MathMax(a, b) == IF IsNaN(a) \/ IsNaN(b) THEN NaN ELSE IF NumLT(a, b) THEN b ELSE a
MathMin(a, b) == IF IsNaN(a) \/ IsNaN(b) THEN NaN ELSE IF NumLT(b, a) THEN b ELSE a

----
\* updateTimelineGeometry, lines 4778-4828: this.yPositions and markers[i].n
\* for a bar of clientHeight barHeight, track padding pad and N markers.
\* Indices are those of the code (0-based); the sequences are 1-based.

\* `const usable = Math.max(0, barHeight - 2 * pad)`
UsableHeight(barHeight, pad) == Max(0, barHeight - 2 * pad)

\* `const step = usable / Math.max(1, N - 1)`
GeometryStep(usable, N) == NumDiv(Num(usable), Num(Max(1, N - 1)))

\* mutant: the index taken 1-based
GeometryTopOneBased(pad, step, i) == NumAdd(Num(pad), NumMul(step, Num(i + 1)))

\* `const top = pad + step * i`
GeometryTop(pad, step, i) == NumAdd(Num(pad), NumMul(step, Num(i)))

\* `Math.max(pad, Math.min(pad + usable, top))`
GeometryClampedTop(pad, usable, top) ==
    MathMax(Num(pad), MathMin(Num(pad + usable), top))

\* `const n = (clampedTop - pad) / usable; markers[i].n = Math.max(0, Math.min(1, n))`
GeometryN(pad, usable, clampedTop) ==
    MathMax(Num(0), MathMin(Num(1), NumDiv(NumSub(clampedTop, Num(pad)), Num(usable))))

\* mutant: a single marker placed by the loop of the N > 1 branch
yPositionsEvenly(barHeight, pad, N) ==
    LET usable == UsableHeight(barHeight, pad)
    IN [k \in 1..N |->
          GeometryClampedTop(pad, usable,
                             GeometryTop(pad, GeometryStep(usable, N), k - 1))]

yPositionsOf(barHeight, pad, N) ==
    LET usable == UsableHeight(barHeight, pad)
    IN IF N = 1 THEN <<NumAdd(Num(pad), NumDiv(Num(usable), Num(2)))>>
       ELSE [k \in 1..N |->
               GeometryClampedTop(pad, usable,
                                  GeometryTop(pad, GeometryStep(usable, N), k - 1))]

MarkerNsOf(barHeight, pad, N) ==
    LET usable == UsableHeight(barHeight, pad)
        ys == yPositionsOf(barHeight, pad, N)
    IN IF N = 1 THEN <<NumDiv(Num(1), Num(2))>>
       ELSE [k \in 1..N |-> GeometryN(pad, usable, ys[k])]

\* SpecGeometry: updateTimelineGeometry applied to bounded bars and marker counts

MaxBarHeight == 30
MaxPadding == 12

GeometryCalls ==
    {[fn |-> "updateTimelineGeometry", done |-> FALSE,
      barHeight |-> h, pad |-> p, N |-> n, yPositions |-> <<>>, ns |-> <<>>] :
        h \in 0..MaxBarHeight, p \in 0..MaxPadding, n \in 0..MaxMarkers}

InitGeometry ==
    /\ \E d \in {{}} : doc = d /\ Constructed(FALSE)
    /\ ActiveIdle
    /\ call \in GeometryCalls

updateTimelineGeometry ==
    /\ call.fn = "updateTimelineGeometry" /\ ~call.done
    /\ call' = [call EXCEPT !.done = TRUE,
                            !.yPositions = yPositionsOf(call.barHeight, call.pad, call.N),
                            !.ns = MarkerNsOf(call.barHeight, call.pad, call.N)]
    /\ UNCHANGED <<schedVars, activeVars>>

NextGeometry == updateTimelineGeometry

SpecGeometry == InitGeometry /\ [][NextGeometry]_vars

----
\* getEffectiveMinGap, lines 4596-4604; raw is the value of getMinGap()

getEffectiveMinGap(raw, usableHeight, count) ==
    IF count <= 1 THEN Num(0)
    ELSE IF usableHeight <= 0 THEN MathMax(Num(0), Num(raw))
    ELSE LET maxGap == NumDiv(Num(usableHeight), Num(Max(1, count - 1)))
         IN MathMax(Num(0), MathMin(Num(raw), maxGap))

\* SpecEffectiveGap: getEffectiveMinGap applied to bounded arguments

RawGaps == {-1, 0, 5, 12}

EffectiveGapCalls ==
    {[fn |-> "getEffectiveMinGap", done |-> FALSE,
      raw |-> r, usableHeight |-> u, count |-> c, result |-> Num(0)] :
        r \in RawGaps, u \in (-2)..MaxBarHeight, c \in 0..MaxMarkers}

InitEffectiveGap ==
    /\ \E d \in {{}} : doc = d /\ Constructed(FALSE)
    /\ ActiveIdle
    /\ call \in EffectiveGapCalls

EffectiveMinGapCall ==
    /\ call.fn = "getEffectiveMinGap" /\ ~call.done
    /\ call' = [call EXCEPT !.done = TRUE,
                            !.result = getEffectiveMinGap(call.raw, call.usableHeight,
                                                          call.count)]
    /\ UNCHANGED <<schedVars, activeVars>>

NextEffectiveGap == EffectiveMinGapCall

SpecEffectiveGap == InitEffectiveGap /\ [][NextEffectiveGap]_vars

----
\* applyMinGap, lines 4607-4639, on whole-pixel positions.
\* Indices are 1-based: out[1] is out[0] of the code.

\* mutant: the forward pass left out
ForwardPassSkipped(out, gap, i) == out

\* lines 4613-4616 and 4627-4630: `out[i] = Math.max(out[i], out[i - 1] + gap)`
\* for i from the given index upwards (out is a copy of positions, so the
\* first pass reads positions[i] in out[i])
RECURSIVE ForwardPass(_, _, _)
ForwardPass(out, gap, i) ==
    IF i > Len(out) THEN out
    ELSE ForwardPass([out EXCEPT ![i] = Max(out[i], out[i - 1] + gap)], gap, i + 1)

\* mutant: the backward pass left out
BackwardPassSkipped(out, gap, i) == out

\* lines 4620-4623: `out[i] = Math.min(out[i], out[i + 1] - gap)` for i from the
\* given index downwards
RECURSIVE BackwardPass(_, _, _)
BackwardPass(out, gap, i) ==
    IF i < 1 THEN out
    ELSE BackwardPass([out EXCEPT ![i] = Min(out[i], out[i + 1] - gap)], gap, i - 1)

\* lines 4634-4637
FinalClamp(out, minTop, maxTop) ==
    [i \in 1..Len(out) |->
        LET a == IF out[i] < minTop THEN minTop ELSE out[i]
        IN IF a > maxTop THEN maxTop ELSE a]

applyMinGap(positions, minTop, maxTop, gap) ==
    LET n == Len(positions)
    IN IF n = 0 THEN positions
       ELSE
         LET first == [positions EXCEPT ![1] = Max(minTop, Min(positions[1], maxTop))]
             fwd == ForwardPass(first, gap, 2)
             back == BackwardPass([fwd EXCEPT ![n] = maxTop], gap, n - 1)
             passed == IF fwd[n] > maxTop
                       THEN IF back[1] < minTop
                            THEN ForwardPass([back EXCEPT ![1] = minTop], gap, 2)
                            ELSE back
                       ELSE fwd
         IN FinalClamp(passed, minTop, maxTop)

\* SpecMinGap: applyMinGap applied to bounded lists of desired positions

MaxPos == 6
MaxMinTop == 2
MaxGap == 3

PositionLists == UNION {[1..n -> 0..MaxPos] : n \in 0..MaxMarkers}

MinGapCalls ==
    {[fn |-> "applyMinGap", done |-> FALSE,
      positions |-> ps, minTop |-> lo, maxTop |-> hi, gap |-> g, out |-> <<>>] :
        ps \in PositionLists, lo \in 0..MaxMinTop, hi \in 0..MaxPos, g \in 0..MaxGap}

InitMinGap ==
    /\ \E d \in {{}} : doc = d /\ Constructed(FALSE)
    /\ ActiveIdle
    /\ call \in {c \in MinGapCalls : c.minTop <= c.maxTop}

ApplyMinGapCall ==
    /\ call.fn = "applyMinGap" /\ ~call.done
    /\ call' = [call EXCEPT !.done = TRUE,
                            !.out = applyMinGap(call.positions, call.minTop,
                                                call.maxTop, call.gap)]
    /\ UNCHANGED <<schedVars, activeVars>>

NextMinGap == ApplyMinGapCall

SpecMinGap == InitMinGap /\ [][NextMinGap]_vars

----
\* syncTimelineTrackToMain, lines 4852-4874, with ui.track and scrollContainer
\* present.  track.scrollTop lies in 0..max(0, scrollHeight - clientHeight),
\* where the scroll height of the track is the height given to trackContent
\* (line 4818), i.e. contentHeight.

\* Math.round of a Number >= 0: the nearest integer, halves upwards
MathRound(a) == (2 * a.num + a.den) \div (2 * a.den)

\* `Math.max(0, Math.min(1, (ref - firstUserTurnOffset) / span))`, ref carried x20
TrackRatio(ref20, firstUserTurnOffset, contentSpanPx) ==
    LET span == Max(1, contentSpanPx)
    IN MathMax(Num(0), MathMin(Num(1),
          NumDiv(Num(ref20 - 20 * firstUserTurnOffset), Num(20 * span))))

\* `Math.max(0, this.contentHeight - (this.ui.track.clientHeight || 0))`
MaxTrackScroll(contentHeight, trackHeight) == Max(0, contentHeight - trackHeight)

\* mutant: a tolerance of two pixels
TrackWriteNeededLoose(cur, target) == Abs(cur - target) > 2

\* `Math.abs((this.ui.track.scrollTop || 0) - target) > 1`
TrackWriteNeeded(cur, target) == Abs(cur - target) > 1

\* track.scrollTop after the call
syncTimelineTrackToMain(c) ==
    IF c.contentHeight = 0 \/ c.trackHeight <= 0 THEN c.trackScrollTop
    ELSE IF c.contentHeight <= c.trackHeight + 1 THEN 0
    ELSE IF c.sliderDragging THEN c.trackScrollTop
    ELSE LET ref20 == Ref20(c.scrollTop, c.clientHeight)
             r == TrackRatio(ref20, c.firstUserTurnOffset, c.contentSpanPx)
             maxScroll == MaxTrackScroll(c.contentHeight, c.trackHeight)
             target == MathRound(NumMul(r, Num(maxScroll)))
         IN IF TrackWriteNeeded(c.trackScrollTop, target) THEN target
            ELSE c.trackScrollTop

\* SpecTrackSync: syncTimelineTrackToMain applied to bounded track states

ContentHeights == {0, 20, 21, 24, 30}
TrackHeights == {0, 20}
FirstOffsets == {0, 50}
ContentSpans == {1, 100, 250}

TrackSyncCalls ==
    {[fn |-> "syncTimelineTrackToMain", done |-> FALSE,
      contentHeight |-> ch, trackHeight |-> th, trackScrollTop |-> ts,
      sliderDragging |-> sd, scrollTop |-> st, clientHeight |-> vh,
      firstUserTurnOffset |-> fo, contentSpanPx |-> sp, after |-> ts] :
        ch \in ContentHeights, th \in TrackHeights, ts \in 0..30,
        sd \in BOOLEAN, st \in ActiveScrollTops, vh \in ClientHeights,
        fo \in FirstOffsets, sp \in ContentSpans}

InitTrackSync ==
    /\ \E d \in {{}} : doc = d /\ Constructed(FALSE)
    /\ ActiveIdle
    /\ call \in {c \in TrackSyncCalls :
                   c.trackScrollTop <= MaxTrackScroll(c.contentHeight, c.trackHeight)}

TrackSyncCall ==
    /\ call.fn = "syncTimelineTrackToMain" /\ ~call.done
    /\ call' = [call EXCEPT !.done = TRUE, !.after = syncTimelineTrackToMain(call)]
    /\ UNCHANGED <<schedVars, activeVars>>

NextTrackSync == TrackSyncCall

SpecTrackSync == InitTrackSync /\ [][NextTrackSync]_vars

----
\* computePlacementInfo, lines 5025-5058.  The custom properties of the tooltip
\* have the defaults given in the calls of getCSSVarNumber.

\* Math.floor
MathFloor(a) == a.num \div a.den

arrowOut == 6
baseGap == 12
boxGap == 8
viewportPad == 8
maxW == 288
minW == 160
tiers == <<280, 240, 200, 160>>

\* `baseGap + Math.max(0, arrowOut) + Math.max(0, boxGap)`
tooltipGap == baseGap + Max(0, arrowOut) + Max(0, boxGap)

\* `tiers.find(t => t <= hardMax) || fallback`
TierOrElse(hardMax, fallback) ==
    LET fit == {i \in 1..Len(tiers) : tiers[i] <= hardMax}
    IN IF fit = {} THEN fallback
       ELSE tiers[CHOOSE i \in fit : \A j \in fit : i <= j]

\* `Math.max(minW, Math.min(maxW, Math.floor(avail)))`
HardMax(avail) == Max(minW, Min(maxW, MathFloor(avail)))

\* mutant: the comparison of the two sides inverted
FirstPlacementInverted(leftAvail, rightAvail) ==
    IF NumLT(rightAvail, leftAvail) THEN "right" ELSE "left"

\* `(rightAvail > leftAvail) ? 'right' : 'left'`
FirstPlacement(leftAvail, rightAvail) ==
    IF NumLT(leftAvail, rightAvail) THEN "right" ELSE "left"

\* dotLeft, dotRight: Numbers; vw: window.innerWidth
computePlacementInfo(dotLeft, dotRight, vw) ==
    LET leftAvail == MathMax(Num(0), NumSub(dotLeft, Num(tooltipGap + viewportPad)))
        rightAvail == MathMax(Num(0), NumSub(NumSub(Num(vw), dotRight),
                                             Num(tooltipGap + viewportPad)))
        placement == FirstPlacement(leftAvail, rightAvail)
        avail == IF placement = "right" THEN rightAvail ELSE leftAvail
        hardMax == HardMax(avail)
        width == TierOrElse(hardMax, Max(minW, Min(hardMax, 160)))
        switched ==
            IF width < minW /\ placement = "left" /\ NumLT(leftAvail, rightAvail)
            THEN [placement |-> "right",
                  width |-> TierOrElse(HardMax(rightAvail),
                                       Max(120, Min(HardMax(rightAvail), minW)))]
            ELSE IF width < minW /\ placement = "right" /\ NumLE(rightAvail, leftAvail)
            THEN [placement |-> "left",
                  width |-> TierOrElse(HardMax(leftAvail),
                                       Max(120, Min(HardMax(leftAvail), minW)))]
            ELSE [placement |-> placement, width |-> width]
    IN [placement |-> switched.placement,
        width |-> Max(120, Min(switched.width, maxW)),
        leftAvail |-> leftAvail, rightAvail |-> rightAvail]

\* SpecPlacement: computePlacementInfo applied to bounded anchors and viewports.
\* Anchor edges are given in half pixels.

DotWidths == {12}
ViewportWidths == {400, 480, 560, 640, 720}
AnchorLefts2 ==
    {l \in {2 * (tooltipGap + viewportPad + t) + e :
              t \in {0, 100, 160, 200, 240, 280, 300}, e \in {-1, 0, 1}} : l >= 0}

PlacementCalls ==
    {[fn |-> "computePlacementInfo", done |-> FALSE,
      left2 |-> l, dotWidth |-> dw, vw |-> w, placement |-> "none", width |-> 0,
      leftAvail |-> Num(0), rightAvail |-> Num(0)] :
        l \in AnchorLefts2, dw \in DotWidths, w \in ViewportWidths}

InitPlacement ==
    /\ \E d \in {{}} : doc = d /\ Constructed(FALSE)
    /\ ActiveIdle
    /\ call \in PlacementCalls

PlacementCall ==
    /\ call.fn = "computePlacementInfo" /\ ~call.done
    /\ LET dotLeft == [num |-> call.left2, den |-> 2]
           p == computePlacementInfo(dotLeft, NumAdd(dotLeft, Num(call.dotWidth)), call.vw)
       IN call' = [call EXCEPT !.done = TRUE, !.placement = p.placement,
                               !.width = p.width, !.leftAvail = p.leftAvail,
                               !.rightAvail = p.rightAvail]
    /\ UNCHANGED <<schedVars, activeVars>>

NextPlacement == PlacementCall

SpecPlacement == InitPlacement /\ [][NextPlacement]_vars

----
\* truncateToThreeLines, lines 5060-5095.  A text is a sequence of characters,
\* "a" for a visible character and " " for white space.  The measuring element
\* is the layout: for a given width, lines[k + 1] is the number of lines of the
\* first k characters of the normalized text followed by the ellipsis, and
\* full is the number of lines of the whole normalized text.

lineH == 18
padY == 10
borderW == 1

\* `Math.round(3 * lineH + 2 * padY + 2 * borderW)`
maxH == 3 * lineH + 2 * padY + 2 * borderW

\* el.offsetHeight of a text laid out on n lines
OffsetHeight(n) == n * lineH + 2 * padY + 2 * borderW

\* `.replace(/\s+/g, ' ').trim()`
RECURSIVE CollapseSpaces(_, _, _)
CollapseSpaces(t, i, acc) ==
    IF i > Len(t) THEN acc
    ELSE IF t[i] = " " /\ (acc = <<>> \/ acc[Len(acc)] = " ")
         THEN CollapseSpaces(t, i + 1, acc)
         ELSE CollapseSpaces(t, i + 1, Append(acc, t[i]))

\* String.prototype.trimEnd
RECURSIVE trimEnd(_)
trimEnd(t) ==
    IF t # <<>> /\ t[Len(t)] = " " THEN trimEnd(SubSeq(t, 1, Len(t) - 1)) ELSE t

NormalizeText(t) == trimEnd(CollapseSpaces(t, 1, <<>>))

\* `raw.slice(0, mid).trimEnd()`
TrimmedPrefix(raw, mid) == trimEnd(SubSeq(raw, 1, mid))

\* mutant: a candidate exactly as tall as the budget is rejected
FitsBudgetStrictly(h) == h < maxH

\* mutant: the comparison of the search inverted
FitsBudgetInverted(h) == h >= maxH

\* line 5086: `h <= maxH`
FitsBudget(h) == h <= maxH

\* el.offsetHeight of `raw.slice(0, mid).trimEnd() + ell` under a layout
CandidateHeight(raw, layout, mid) ==
    OffsetHeight(layout.lines[Len(TrimmedPrefix(raw, mid)) + 1])

\* lines 5081-5087: the binary search, returning ans
RECURSIVE SearchPrefix(_, _, _, _, _)
SearchPrefix(raw, layout, lo, hi, ans) ==
    IF lo > hi THEN ans
    ELSE LET mid == (lo + hi) \div 2
         IN IF FitsBudget(CandidateHeight(raw, layout, mid))
            THEN SearchPrefix(raw, layout, mid + 1, hi, mid)
            ELSE SearchPrefix(raw, layout, lo, mid - 1, ans)

\* the text returned, whether it ends with the ellipsis, the length of the
\* prefix of the normalized text it starts with, and its el.offsetHeight
truncateToThreeLines(text, layout) ==
    LET raw == NormalizeText(text)
    IN IF OffsetHeight(layout.full) <= maxH
       THEN [prefix |-> raw, ellipsis |-> FALSE, height |-> OffsetHeight(layout.full)]
       ELSE LET ans == SearchPrefix(raw, layout, 0, Len(raw), 0)
            IN IF ans >= Len(raw)
               THEN [prefix |-> raw, ellipsis |-> FALSE,
                     height |-> OffsetHeight(layout.full)]
               ELSE [prefix |-> TrimmedPrefix(raw, ans), ellipsis |-> TRUE,
                     height |-> CandidateHeight(raw, layout, ans)]

\* SpecTruncate: truncateToThreeLines applied to one text at two widths,
\* w1 <= w2.  A layout is non-decreasing in the prefix length, the whole text is
\* not taller than the whole text followed by the ellipsis, and the layout of
\* the narrower width is nowhere lower than the layout of the wider one.
\* Layouts in which the ellipsis alone takes more than three lines are included.

MaxLen == 3
MaxLines == 4

Texts == UNION {[1..n -> {"a", " "}] : n \in 0..MaxLen}

\* the non-decreasing sequences of n line counts, each at least lo
RECURSIVE NonDecreasing(_, _)
NonDecreasing(n, lo) ==
    IF n = 0 THEN {<<>>}
    ELSE UNION {{<<v>> \o q : q \in NonDecreasing(n - 1, v)} : v \in lo..MaxLines}

\* an empty text has no line
Layouts(len) ==
    {l \in [lines : NonDecreasing(len + 1, 1),
            full : IF len = 0 THEN {0} ELSE 1..MaxLines] :
        l.full <= l.lines[len + 1]}

NoResult == [prefix |-> <<>>, ellipsis |-> FALSE, height |-> 0]

\* l2 is a layout of a width not narrower than the width of layout l1
IsWiderLayout(len, l1, l2) ==
    /\ l2.full <= l1.full
    /\ \A k \in 1..(len + 1) : l2.lines[k] <= l1.lines[k]

\* the pairs <<layout at w1, layout at w2>> of a text of each length
LayoutPairs ==
    [len \in 0..MaxLen |->
        {p \in Layouts(len) \X Layouts(len) : IsWiderLayout(len, p[1], p[2])}]

TruncateCalls ==
    {[fn |-> "truncateToThreeLines", done |-> FALSE, text |-> c[1],
      narrow |-> c[2][1], wide |-> c[2][2], done1 |-> FALSE, done2 |-> FALSE,
      out1 |-> NoResult, out2 |-> NoResult] :
        c \in {x \in Texts \X UNION {LayoutPairs[n] : n \in 0..MaxLen} :
                 Len(x[2][1].lines) = Len(NormalizeText(x[1])) + 1}}

InitTruncate ==
    /\ \E d \in {{}} : doc = d /\ Constructed(FALSE)
    /\ ActiveIdle
    /\ call \in TruncateCalls

TruncateNarrow ==
    /\ call.fn = "truncateToThreeLines" /\ ~call.done1
    /\ call' = [call EXCEPT !.done1 = TRUE, !.done = call.done2,
                            !.out1 = truncateToThreeLines(call.text, call.narrow)]
    /\ UNCHANGED <<schedVars, activeVars>>

TruncateWide ==
    /\ call.fn = "truncateToThreeLines" /\ ~call.done2
    /\ call' = [call EXCEPT !.done2 = TRUE, !.done = call.done1,
                            !.out2 = truncateToThreeLines(call.text, call.wide)]
    /\ UNCHANGED <<schedVars, activeVars>>

NextTruncate == TruncateNarrow \/ TruncateWide

SpecTruncate == InitTruncate /\ [][NextTruncate]_vars

----
\* Dragging and position persistence: startDrag / updateDrag / endDrag with
\* savePosition / restorePosition for the timeline bar (lines 5314-5429 and
\* 5484-5556), startTOCDrag / updateTOCDrag / endTOCDrag with saveTOCPosition /
\* restoreTOCPosition for the TOC panel (lines 6144-6349).  The element is a
\* fixed-position box: its rectangle is given by left and top, the bar is
\* placed by style.right and style.top, the panel by style.left and style.top.
\* Writes to storage succeed.

margin == 10

\* the factor of the bounce: 0.3 (lines 5371-5379), bounceFactor 0.4 (line 6211)
BounceFactor(kind) == IF kind = "bar" THEN [num |-> 3, den |-> 10]
                      ELSE [num |-> 4, den |-> 10]

\* mutant: the overflow applied in full
BounceUndamped(x, lo, hi, factor) == x

\* lines 5370-5380, 6213-6223
Bounce(x, lo, hi, factor) ==
    IF NumLT(x, lo) THEN NumSub(lo, NumMul(NumSub(lo, x), factor))
    ELSE IF NumLT(hi, x) THEN NumAdd(hi, NumMul(NumSub(x, hi), factor))
    ELSE x

\* `Math.max(lo, Math.min(x, hi))`
ClampTo(x, lo, hi) == MathMax(lo, MathMin(x, hi))

\* `(part / whole) * 100` and `(percent / 100) * whole`
ToPercent(part, whole) == NumMul(NumDiv(part, Num(whole)), Num(100))
FromPercent(percent, whole) == NumMul(NumDiv(percent, Num(100)), Num(whole))

NoPosition == [x |-> Num(0), top |-> Num(0), width |-> Num(0), height |-> Num(0),
               windowWidth |-> 0, windowHeight |-> 0]

\* startDrag, lines 5314-5348: barStartX is the RIGHT edge of the bar
startDrag ==
    /\ call.fn = "drag" /\ call.kind = "bar" /\ call.phase = "idle"
    /\ call' = [call EXCEPT !.phase = "dragging",
                            !.startX = NumAdd(call.left, Num(call.w)),
                            !.startY = call.top]
    /\ UNCHANGED <<schedVars, activeVars>>

\* updateDrag, lines 5350-5393, for a pointer at (dx, dy) from where it went down
updateDrag(dx, dy) ==
    /\ call.fn = "drag" /\ call.kind = "bar" /\ call.phase = "dragging"
    /\ LET rawX == NumAdd(call.startX, Num(dx))
           rawY == NumAdd(call.startY, Num(dy))
           maxX == Num(call.W - call.w - margin)
           maxY == Num(call.H - call.h - margin)
           newX == Bounce(rawX, Num(margin), maxX, BounceFactor("bar"))
           newY == Bounce(rawY, Num(margin), maxY, BounceFactor("bar"))
           constrainedX == ClampTo(newX, Num(margin), maxX)
           styleRight == NumSub(NumSub(Num(call.W), constrainedX), Num(call.w))
           styleTop == ClampTo(newY, Num(margin), maxY)
       IN call' = [call EXCEPT !.moved = TRUE,
                               !.rawX = rawX, !.rawY = rawY,
                               !.dampedX = newX, !.dampedY = newY,
                               !.appliedX = constrainedX, !.appliedY = styleTop,
                               !.left = NumSub(NumSub(Num(call.W), styleRight), Num(call.w)),
                               !.top = styleTop]
    /\ UNCHANGED <<schedVars, activeVars>>

\* endDrag, lines 5395-5429, with savePosition, lines 5484-5512
endDrag ==
    /\ call.fn = "drag" /\ call.kind = "bar" /\ call.phase = "dragging"
    /\ LET rectRight == NumAdd(call.left, Num(call.w))
       IN call' = [call EXCEPT
            !.phase = "released",
            !.endX = NumSub(Num(call.W), rectRight),
            !.endTop = call.top,
            !.saved = [x |-> ToPercent(NumSub(Num(call.W), rectRight), call.W),
                       top |-> ToPercent(call.top, call.H),
                       width |-> ToPercent(Num(call.w), call.W),
                       height |-> ToPercent(Num(call.h), call.H),
                       windowWidth |-> call.W, windowHeight |-> call.H]]
    /\ UNCHANGED <<schedVars, activeVars>>

\* restorePosition, lines 5514-5556, in the current viewport
restorePosition ==
    /\ call.fn = "drag" /\ call.kind = "bar" /\ call.phase \in {"released", "resized"}
    /\ LET maxRight == Num(call.W - call.w - margin)
           maxTop == Num(call.H - call.h - margin)
           right == ClampTo(FromPercent(call.saved.x, call.W), Num(margin), maxRight)
           top == ClampTo(FromPercent(call.saved.top, call.H), Num(margin), maxTop)
       IN call' = [call EXCEPT !.phase = "restored", !.done = TRUE,
                               !.restoredX = right, !.restoredTop = top,
                               !.left = NumSub(NumSub(Num(call.W), right), Num(call.w)),
                               !.top = top]
    /\ UNCHANGED <<schedVars, activeVars>>

\* startTOCDrag, lines 6144-6183
startTOCDrag ==
    /\ call.fn = "drag" /\ call.kind = "toc" /\ call.phase = "idle"
    /\ call' = [call EXCEPT !.phase = "dragging",
                            !.startX = call.left, !.startY = call.top]
    /\ UNCHANGED <<schedVars, activeVars>>

\* updateTOCDrag, lines 6186-6235
updateTOCDrag(dx, dy) ==
    /\ call.fn = "drag" /\ call.kind = "toc" /\ call.phase = "dragging"
    /\ LET rawX == NumAdd(call.startX, Num(dx))
           rawY == NumAdd(call.startY, Num(dy))
           maxX == Num(call.W - call.w - margin)
           maxY == Num(call.H - call.h - margin)
           newX == Bounce(rawX, Num(margin), maxX, BounceFactor("toc"))
           newY == Bounce(rawY, Num(margin), maxY, BounceFactor("toc"))
       IN call' = [call EXCEPT !.moved = TRUE,
                               !.rawX = rawX, !.rawY = rawY,
                               !.dampedX = newX, !.dampedY = newY,
                               !.appliedX = newX, !.appliedY = newY,
                               !.left = newX, !.top = newY]
    /\ UNCHANGED <<schedVars, activeVars>>

\* endTOCDrag, lines 6238-6268, with saveTOCPosition, lines 6271-6298
\* (ensureTOCVisible leaves a panel that has style.left where it is)
endTOCDrag ==
    /\ call.fn = "drag" /\ call.kind = "toc" /\ call.phase = "dragging"
    /\ call' = [call EXCEPT
            !.phase = "released",
            !.endX = call.left,
            !.endTop = call.top,
            !.saved = [x |-> ToPercent(call.left, call.W),
                       top |-> ToPercent(call.top, call.H),
                       width |-> ToPercent(Num(call.w), call.W),
                       height |-> ToPercent(Num(call.h), call.H),
                       windowWidth |-> call.W, windowHeight |-> call.H]]
    /\ UNCHANGED <<schedVars, activeVars>>

\* restoreTOCPosition, lines 6301-6349, in the current viewport; the width and
\* height it clamps with are the stored percentages of the current viewport
restoreTOCPosition ==
    /\ call.fn = "drag" /\ call.kind = "toc" /\ call.phase \in {"released", "resized"}
    /\ LET width == FromPercent(call.saved.width, call.W)
           height == FromPercent(call.saved.height, call.H)
           maxLeft == NumSub(NumSub(Num(call.W), width), Num(margin))
           maxTop == NumSub(NumSub(Num(call.H), height), Num(margin))
           left == ClampTo(FromPercent(call.saved.x, call.W), Num(margin), maxLeft)
           top == ClampTo(FromPercent(call.saved.top, call.H), Num(margin), maxTop)
       IN call' = [call EXCEPT !.phase = "restored", !.done = TRUE,
                               !.restoredX = left, !.restoredTop = top,
                               !.left = left, !.top = top]
    /\ UNCHANGED <<schedVars, activeVars>>

\* the window is resized between the save and the restore: the bar, placed by
\* style.right, keeps its distance to the right edge, the panel its left; both
\* keep their size in pixels (the panel's width is settings.tocWidth, line 5934).
\* The gesture is over: moved is reset.
DragViewportResize(v) ==
    /\ call.fn = "drag" /\ call.phase = "released"
    /\ v # [W |-> call.W, H |-> call.H]
    /\ call' = [call EXCEPT !.phase = "resized", !.moved = FALSE,
                            !.W = v.W, !.H = v.H,
                            !.left = IF call.kind = "bar"
                                     THEN NumAdd(call.left, Num(v.W - call.W))
                                     ELSE call.left]
    /\ UNCHANGED <<schedVars, activeVars>>

\* SpecDrag: one drag gesture of the bar or of the panel, then a restore in
\* the same or in a resized viewport.  The gesture starts from a position that
\* a restore writes.  In the smallest viewport the panel does not fit between
\* the margins.

Boxes == {[kind |-> "bar", w |-> 24, h |-> 100], [kind |-> "toc", w |-> 200, h |-> 120]}
Viewports == {[W |-> 400, H |-> 300], [W |-> 300, H |-> 200], [W |-> 210, H |-> 130]}
StartLefts == {10, 30}
StartTops == {10, 20}
PointerDeltas == {-60, -7, 0, 200, 400}

DragCalls ==
    {[fn |-> "drag", done |-> FALSE, kind |-> b.kind, W |-> v.W, H |-> v.H,
      w |-> b.w, h |-> b.h, left |-> Num(l), top |-> Num(t), phase |-> "idle",
      startX |-> Num(0), startY |-> Num(0), moved |-> FALSE,
      rawX |-> Num(0), rawY |-> Num(0), dampedX |-> Num(0), dampedY |-> Num(0),
      appliedX |-> Num(0), appliedY |-> Num(0),
      endX |-> Num(0), endTop |-> Num(0), saved |-> NoPosition,
      restoredX |-> Num(0), restoredTop |-> Num(0)] :
        b \in Boxes, v \in Viewports, l \in StartLefts, t \in StartTops}

\* left and top are values that the clamp of a restore leaves as they are
IsRestoredPosition(c) ==
    /\ NumEQ(c.left, ClampTo(c.left, Num(margin), Num(c.W - c.w - margin)))
    /\ NumEQ(c.top, ClampTo(c.top, Num(margin), Num(c.H - c.h - margin)))

InitDrag ==
    /\ \E d \in {{}} : doc = d /\ Constructed(FALSE)
    /\ ActiveIdle
    /\ call \in {c \in DragCalls : IsRestoredPosition(c)}

NextDrag ==
    \/ startDrag
    \/ \E dx \in PointerDeltas : \E dy \in PointerDeltas : updateDrag(dx, dy)
    \/ endDrag
    \/ restorePosition
    \/ startTOCDrag
    \/ \E dx \in PointerDeltas : \E dy \in PointerDeltas : updateTOCDrag(dx, dy)
    \/ endTOCDrag
    \/ restoreTOCPosition
    \/ \E v \in Viewports : DragViewportResize(v)

SpecDrag == InitDrag /\ [][NextDrag]_vars

----
\* Persistence: loadSettings / saveSettings (lines 5559-5581), savePosition /
\* restorePosition (lines 5484-5556), saveTOCPosition / restoreTOCPosition
\* (lines 6271-6349) and their callers init (lines 3284-3324), injectTimelineUI
\* (line 3558), createTOC (line 5650), the window resize handler (line 4186),
\* endDrag (line 5424), endTOCDrag (line 6252) and handleMessage (line 6461).
\* Every access to chrome.storage.local or localStorage succeeds or fails.  A
\* position is the CSS default ("css") or one of two places.  The conversation
\* is on the page, the site is chatgpt and enableTOC keeps its default.

Places == {"p1", "p2"}

\* DEFAULT_SETTINGS, lines 3027-3038 (this.settings of the constructor, line 3245)
DEFAULT_SETTINGS == [enabled |-> TRUE, drag |-> TRUE]

SettingsValues == [enabled : BOOLEAN, drag : BOOLEAN]

\* what storage holds under settingsKey: nothing, or settings
StoredSettings ==
    {[present |-> FALSE, enabled |-> TRUE, drag |-> TRUE]}
        \cup {[present |-> TRUE, enabled |-> s.enabled, drag |-> s.drag] : s \in SettingsValues}

\* isTimelineEnabledForSite on chatgpt, lines 3089-3094
isTimelineEnabledForSite(settings) == settings.enabled

Snapshot(c) == [settings |-> c.settings, bar |-> c.bar, toc |-> c.toc]

NoOperation == [op |-> "none", failed |-> "none",
                before |-> [settings |-> DEFAULT_SETTINGS, bar |-> "css", toc |-> "css"],
                after |-> [settings |-> DEFAULT_SETTINGS, bar |-> "css", toc |-> "css"]]

\* mutant: loadSettings without its catch
LoadSettingsUncaught(readOk) == ~readOk

\* loadSettings, lines 5559-5571: does the error leave the function?
LoadSettingsThrows(readOk) == FALSE

\* loadSettings, lines 5561-5565: the settings after the call
loadSettings(settings, stored, readOk) ==
    IF readOk /\ stored.present THEN [enabled |-> stored.enabled, drag |-> stored.drag]
    ELSE settings

\* restorePosition, lines 5514-5556, and restoreTOCPosition, lines 6301-6349:
\* the position after the call, and the access that failed
restoredPlace(current, stored, readOk) ==
    IF readOk /\ stored # "none" THEN stored ELSE current

restoreFailure(stored, readOk, writeOk) ==
    IF ~readOk THEN "read"
    ELSE IF stored # "none" /\ ~writeOk THEN "write"
    ELSE "none"

PersistCalls ==
    {[fn |-> "persist", done |-> FALSE, phase |-> "constructed",
      settings |-> DEFAULT_SETTINGS, storedSettings |-> ss,
      bar |-> "css", storedBar |-> sb, toc |-> "css", storedToc |-> st,
      injected |-> FALSE, listeners |-> FALSE, tocCreated |-> FALSE,
      restorePending |-> FALSE, tocPending |-> FALSE,
      propagated |-> FALSE, retryTimers |-> 0, last |-> NoOperation] :
        ss \in StoredSettings, sb \in Places \cup {"none"}, st \in Places \cup {"none"}}

InitPersist ==
    /\ \E d \in {{}} : doc = d /\ Constructed(FALSE)
    /\ ActiveIdle
    /\ call \in PersistCalls

\* init, lines 3284-3324, up to the end of setupObservers; restorePosition
\* (line 3558) and createTOC (line 3306) continue later
PersistInit(readOk) ==
    /\ call.fn = "persist" /\ call.phase = "constructed"
    /\ LET loaded == loadSettings(call.settings, call.storedSettings, readOk)
           thrown == LoadSettingsThrows(readOk)
           goesOn == ~thrown /\ isTimelineEnabledForSite(loaded)
       IN call' = [call EXCEPT
            !.phase = "running",
            !.settings = loaded,
            !.injected = goesOn,
            !.listeners = goesOn,
            !.restorePending = goesOn /\ loaded.drag,
            !.tocPending = goesOn,
            !.last = [op |-> "init", failed |-> IF readOk THEN "none" ELSE "read",
                      before |-> Snapshot(call),
                      after |-> [Snapshot(call) EXCEPT !.settings = loaded]]]
    /\ UNCHANGED <<schedVars, activeVars>>

\* restorePosition called by injectTimelineUI, line 3558
PersistRestorePosition(readOk, writeOk) ==
    /\ call.fn = "persist" /\ call.restorePending /\ call.injected
    /\ LET place == restoredPlace(call.bar, call.storedBar, readOk)
       IN call' = [call EXCEPT
            !.restorePending = FALSE,
            !.bar = place,
            !.last = [op |-> "restorePosition",
                      failed |-> restoreFailure(call.storedBar, readOk, writeOk),
                      before |-> Snapshot(call),
                      after |-> [Snapshot(call) EXCEPT !.bar = place]]]
    /\ UNCHANGED <<schedVars, activeVars>>

\* createTOC in the frame after init, lines 3304-3312, with restoreTOCPosition
\* (line 5650)
PersistCreateTOC(readOk, writeOk) ==
    /\ call.fn = "persist" /\ call.tocPending /\ call.injected
    /\ LET place == restoredPlace("css", call.storedToc, readOk)
       IN call' = [call EXCEPT
            !.tocPending = FALSE,
            !.tocCreated = TRUE,
            !.toc = place,
            !.last = [op |-> "restoreTOCPosition",
                      failed |-> restoreFailure(call.storedToc, readOk, writeOk),
                      before |-> [Snapshot(call) EXCEPT !.toc = "css"],
                      after |-> [Snapshot(call) EXCEPT !.toc = place]]]
    /\ UNCHANGED <<schedVars, activeVars>>

\* window resize, line 4186: restoreTOCPosition on the panel
PersistResize(readOk, writeOk) ==
    /\ call.fn = "persist" /\ call.tocCreated /\ call.listeners
    /\ LET place == restoredPlace(call.toc, call.storedToc, readOk)
       IN call' = [call EXCEPT
            !.toc = place,
            !.last = [op |-> "restoreTOCPosition",
                      failed |-> restoreFailure(call.storedToc, readOk, writeOk),
                      before |-> Snapshot(call),
                      after |-> [Snapshot(call) EXCEPT !.toc = place]]]
    /\ UNCHANGED <<schedVars, activeVars>>

\* endDrag of a gesture that left the bar at place, with savePosition (line 5424)
PersistEndDrag(place, writeOk) ==
    /\ call.fn = "persist" /\ call.injected /\ call.listeners /\ call.settings.drag
    /\ LET moved == [call EXCEPT !.bar = place]
       IN call' = [moved EXCEPT
            !.storedBar = IF writeOk THEN place ELSE call.storedBar,
            !.last = [op |-> "savePosition", failed |-> IF writeOk THEN "none" ELSE "write",
                      before |-> Snapshot(moved), after |-> Snapshot(moved)]]
    /\ UNCHANGED <<schedVars, activeVars>>

\* endTOCDrag of a gesture that left the panel at place, with saveTOCPosition
\* (line 6252)
PersistEndTOCDrag(place, writeOk) ==
    /\ call.fn = "persist" /\ call.tocCreated /\ call.listeners
    /\ LET moved == [call EXCEPT !.toc = place]
       IN call' = [moved EXCEPT
            !.storedToc = IF writeOk THEN place ELSE call.storedToc,
            !.last = [op |-> "saveTOCPosition", failed |-> IF writeOk THEN "none" ELSE "write",
                      before |-> Snapshot(moved), after |-> Snapshot(moved)]]
    /\ UNCHANGED <<schedVars, activeVars>>

\* handleMessage('updateSettings'), lines 6453-6503: the settings are merged,
\* saveSettings runs, then the instance is destroyed or the bar is made again
PersistUpdateSettings(s, writeOk, tocReadOk) ==
    /\ call.fn = "persist" /\ call.phase = "running" /\ call.injected
    /\ LET merged == [call EXCEPT !.settings = s]
           stays == isTimelineEnabledForSite(s)
       IN call' = [merged EXCEPT
            !.storedSettings = IF writeOk
                               THEN [present |-> TRUE, enabled |-> s.enabled, drag |-> s.drag]
                               ELSE call.storedSettings,
            !.last = [op |-> "saveSettings", failed |-> IF writeOk THEN "none" ELSE "write",
                      before |-> Snapshot(merged), after |-> Snapshot(merged)],
            !.phase = IF stays THEN "running" ELSE "destroyed",
            !.injected = stays,
            !.listeners = stays,
            !.bar = "css",
            !.restorePending = stays /\ s.drag,
            !.tocPending = FALSE,
            !.tocCreated = stays,
            !.toc = IF stays /\ ~call.tocCreated THEN restoredPlace("css", call.storedToc, tocReadOk)
                    ELSE "css"]
    /\ UNCHANGED <<schedVars, activeVars>>

NextPersist ==
    \/ \E readOk \in BOOLEAN : PersistInit(readOk)
    \/ \E readOk \in BOOLEAN : \E writeOk \in BOOLEAN : PersistRestorePosition(readOk, writeOk)
    \/ \E readOk \in BOOLEAN : \E writeOk \in BOOLEAN : PersistCreateTOC(readOk, writeOk)
    \/ \E readOk \in BOOLEAN : \E writeOk \in BOOLEAN : PersistResize(readOk, writeOk)
    \/ \E place \in Places : \E writeOk \in BOOLEAN : PersistEndDrag(place, writeOk)
    \/ \E place \in Places : \E writeOk \in BOOLEAN : PersistEndTOCDrag(place, writeOk)
    \/ \E s \in SettingsValues : \E writeOk \in BOOLEAN : \E tocReadOk \in BOOLEAN :
            PersistUpdateSettings(s, writeOk, tocReadOk)

SpecPersist == InitPersist /\ [][NextPersist]_vars

----
\* Discovery: the initialization interval (lines 6962-6990), handleUrlChange
\* and attemptProcessUrlChange (lines 6808-6844), initializeTimeline (lines
\* 6770-6806) and findCriticalElements (lines 3326-3490).  The page has or has
\* not a main element; conversation turns may appear at any time.  The path is
\* a supported one, the site is enabled and the cached lookups are fresh.

maxRetries == 5
URL_CHANGE_MAX_ATTEMPTS == 8
maxInitializationAttempts == 10

MaxUrlChanges == 2

\* hasRequiredConversationElements, lines 6847-6892: a turn or a main element
hasRequiredConversationElements(c) == c.turns \/ c.main

\* mutant: the retry loop of the URL change without its limit
UrlAttemptsExhaustedNever(attempt) == FALSE

\* attemptProcessUrlChange, line 6835
UrlAttemptsExhausted(attempt) == attempt >= URL_CHANGE_MAX_ATTEMPTS

\* initializeTimeline, lines 6770-6806, up to the first attempt of
\* findCriticalElements inside init(): the constructor arms the instance's
\* visibility interval (line 3264)
initializeTimeline(c) ==
    IF c.instance \/ ~hasRequiredConversationElements(c) THEN c
    ELSE [c EXCEPT !.instance = TRUE, !.finding = TRUE, !.findAttempt = 0]

\* attemptProcessUrlChange(attempt), lines 6825-6844
attemptProcessUrlChange(c, attempt) ==
    LET tried == [c EXCEPT !.urlAttempt = attempt, !.initTimerId = FALSE]
    IN IF hasRequiredConversationElements(c) THEN initializeTimeline(tried)
       ELSE IF UrlAttemptsExhausted(attempt) THEN tried
       ELSE [tried EXCEPT !.initTimerId = TRUE]

DiscoveryCalls ==
    {[fn |-> "discover", done |-> FALSE, main |-> m, turns |-> FALSE, everTurns |-> FALSE,
      routeListening |-> r, urlChanges |-> 0, urlAttempt |-> 0, initTimerId |-> FALSE,
      ticks |-> 0, intervalActive |-> TRUE, clearAfterInit |-> FALSE,
      instance |-> FALSE, finding |-> FALSE, findAttempt |-> 0, fallback |-> FALSE,
      injected |-> FALSE, propagated |-> FALSE] :
        m \in BOOLEAN, r \in BOOLEAN}

InitDiscovery ==
    /\ \E d \in {{}} : doc = d /\ Constructed(FALSE)
    /\ ActiveIdle
    /\ call \in DiscoveryCalls

\* the host page renders conversation turns
TurnsAppear ==
    /\ call.fn = "discover" /\ ~call.turns
    /\ call' = [call EXCEPT !.turns = TRUE, !.everTurns = TRUE]
    /\ UNCHANGED <<schedVars, activeVars>>

\* one tick of initializationInterval, lines 6964-6990
InitializationTick ==
    /\ call.fn = "discover" /\ call.intervalActive
    /\ LET ticked == [call EXCEPT !.ticks = call.ticks + 1]
       IN IF hasRequiredConversationElements(call) /\ ~call.instance
          THEN call' = [initializeTimeline(ticked) EXCEPT !.clearAfterInit = TRUE]
          ELSE call' = [ticked EXCEPT
                          !.intervalActive = ~(ticked.ticks >= maxInitializationAttempts)]
    /\ UNCHANGED <<schedVars, activeVars>>

\* handleUrlChange, lines 6808-6823, with the first attemptProcessUrlChange
handleUrlChange ==
    /\ call.fn = "discover" /\ call.routeListening
    /\ call.urlChanges < MaxUrlChanges
    /\ call' = attemptProcessUrlChange([call EXCEPT !.urlChanges = call.urlChanges + 1], 1)
    /\ UNCHANGED <<schedVars, activeVars>>

\* the retry timeout of attemptProcessUrlChange fires, lines 6840-6843
UrlRetryTimeout ==
    /\ call.fn = "discover" /\ call.initTimerId
    /\ call' = attemptProcessUrlChange(call, call.urlAttempt + 1)
    /\ UNCHANGED <<schedVars, activeVars>>

\* one pass of the loop of findCriticalElements (lines 3332-3422); after the
\* last one the fallback container is taken (lines 3424-3430), the function
\* returns true (line 3489) and init() injects the UI (lines 3301-3305); the
\* tick that started the initialization then clears the interval (line 6978)
FindAttempt ==
    /\ call.fn = "discover" /\ call.finding
    /\ LET attempt == call.findAttempt + 1
           over == call.turns \/ attempt >= maxRetries
       IN call' = [call EXCEPT
            !.findAttempt = attempt,
            !.finding = ~over,
            !.fallback = over /\ ~call.turns,
            !.injected = over,
            !.intervalActive = IF over /\ call.clearAfterInit THEN FALSE
                               ELSE call.intervalActive,
            !.clearAfterInit = IF over THEN FALSE ELSE call.clearAfterInit]
    /\ UNCHANGED <<schedVars, activeVars>>

NextDiscovery ==
    \/ TurnsAppear
    \/ InitializationTick
    \/ handleUrlChange
    \/ UrlRetryTimeout
    \/ FindAttempt

SpecDiscovery == InitDiscovery /\ [][NextDiscovery]_vars

----
\* Registrations: setupEventListenersAfterUIReady (lines 4026-4240),
\* setupObservers (lines 3791-3895), refreshContent (lines 5150-5175),
\* handleMessage('updateSettings') (lines 6453-6503) and destroy (lines
\* 5175-5311).  A listener is the target, the event and the closure it was
\* registered with; every call of setupEventListenersAfterUIReady makes new
\* closures.  Listeners of a bar element go with the element when it is
\* removed.  The legacy slider is never created (ui.slider is null).

MaxInjections == 3
MaxRefreshes == 2

Containers == {"c1", "c2"}

\* the listeners one call of setupEventListenersAfterUIReady registers outside
\* the bar: lines 4106-4110, 4113-4116, 4196, 4198-4207
WindowListeners(gen, drag, container) ==
    {[target |-> "window", type |-> "resize", gen |-> gen],
     [target |-> "visualViewport", type |-> "resize", gen |-> gen],
     [target |-> container, type |-> "scroll", gen |-> gen]}
      \cup (IF drag THEN {[target |-> "window", type |-> "pointermove", gen |-> gen],
                          [target |-> "window", type |-> "pointerup", gen |-> gen]}
            ELSE {})

\* the listeners it registers on the bar: lines 4039, 4107, 4137-4140, 4151-4152, 4222
BarListeners(gen, drag) ==
    {[target |-> "bar", type |-> t, gen |-> gen] :
        t \in {"click", "mouseover", "mouseout", "focusin", "focusout",
               "pointerenter", "pointerleave", "wheel"}}
      \cup (IF drag THEN {[target |-> "bar", type |-> "pointerdown", gen |-> gen]} ELSE {})

\* what destroy() removes, lines 5176-5208: the listeners registered with the
\* closures the instance holds now, the scroll listener of the container it
\* holds now, the pointer listeners if enableLongPressDrag is set now
RemovedByDestroy(c) ==
    {l \in c.attached :
        /\ l.gen = c.gen
        /\ \/ l.target = "bar"
           \/ l.target = "window" /\ l.type = "resize"
           \/ l.target = "visualViewport"
           \/ l.type = "scroll" /\ l.target = c.scrollContainer
           \/ l.target = "window" /\ l.type \in {"pointermove", "pointerup"} /\ c.drag}

ListenerCalls ==
    {[fn |-> "listeners", done |-> FALSE, phase |-> "constructed", drag |-> d,
      gen |-> 0, injections |-> 0, refreshes |-> 0, scrollContainer |-> "c1",
      attached |-> {}, observers |-> {}, observerGen |-> 0] :
        d \in BOOLEAN}

InitListeners ==
    /\ \E d \in {{}} : doc = d /\ Constructed(FALSE)
    /\ ActiveIdle
    /\ call \in ListenerCalls

\* init, lines 3301-3305: injectTimelineUI, setupEventListeners, setupObservers
ListenersInit ==
    /\ call.fn = "listeners" /\ call.phase = "constructed"
    /\ call' = [call EXCEPT
            !.phase = "running", !.gen = 1, !.injections = 1,
            !.attached = WindowListeners(1, call.drag, call.scrollContainer)
                            \cup BarListeners(1, call.drag),
            !.observerGen = 1,
            !.observers = {[kind |-> k, gen |-> 1] :
                            k \in {"mutation", "resize", "intersection"}}]
    /\ UNCHANGED <<schedVars, activeVars>>

\* handleMessage('updateSettings') that keeps the site enabled, lines
\* 6460-6478: the bar is removed and made again, setupEventListeners runs again
ListenersUpdateSettings(drag) ==
    /\ call.fn = "listeners" /\ call.phase = "running"
    /\ call.injections < MaxInjections
    /\ LET gen == call.gen + 1
       IN call' = [call EXCEPT
            !.drag = drag, !.gen = gen, !.injections = call.injections + 1,
            !.attached = {l \in call.attached : l.target # "bar"}
                            \cup WindowListeners(gen, drag, call.scrollContainer)
                            \cup BarListeners(gen, drag)]
    /\ UNCHANGED <<schedVars, activeVars>>

\* refreshContent, lines 5150-5175: findCriticalElements finds the scroll
\* container again (lines 3448-3487), setupObservers disconnects the observers
\* and makes new ones (lines 3792-3801)
ListenersRefreshContent(container) ==
    /\ call.fn = "listeners" /\ call.phase = "running"
    /\ call.refreshes < MaxRefreshes
    /\ LET gen == call.observerGen + 1
       IN call' = [call EXCEPT
            !.refreshes = call.refreshes + 1,
            !.scrollContainer = container,
            !.observerGen = gen,
            !.observers = {[kind |-> k, gen |-> gen] :
                            k \in {"mutation", "resize", "intersection"}}]
    /\ UNCHANGED <<schedVars, activeVars>>

\* destroy, lines 5175-5311
ListenersDestroy ==
    /\ call.fn = "listeners" /\ call.phase = "running"
    /\ call' = [call EXCEPT
            !.phase = "destroyed", !.done = TRUE,
            !.attached = call.attached \ RemovedByDestroy(call),
            !.observers = {o \in call.observers : o.gen # call.observerGen}]
    /\ UNCHANGED <<schedVars, activeVars>>

NextListeners ==
    \/ ListenersInit
    \/ \E drag \in BOOLEAN : ListenersUpdateSettings(drag)
    \/ \E container \in Containers : ListenersRefreshContent(container)
    \/ ListenersDestroy

SpecListeners == InitListeners /\ [][NextListeners]_vars

----
\* Resize signals and the min-gap correction: the window resize handler (lines
\* 4161-4196), the visualViewport resize handler (lines 4199-4205), the
\* ResizeObserver callback (lines 3866-3870) and scheduleMinGapCorrection
\* (lines 4642-4664).  Each handler runs updateTimelineGeometry,
\* syncTimelineTrackToMain and updateVirtualRangeAndRender at once.  No handler
\* and no other function calls scheduleMinGapCorrection, so resizeIdleTimer and
\* resizeIdleRICId keep the null of the constructor (lines 3200-3202) and their
\* callbacks have nothing to fire on.

resizeIdleDelay == 140
idleCallbackTimeout == 200

MaxResizes == 3
MaxResizeTime == 560
ResizeTimeStep == 70

ResizeSignals == {"window", "visualViewport", "ResizeObserver"}

\* scheduleMinGapCorrection, lines 4642-4664, as it would arm the timer
scheduleMinGapCorrection(c) ==
    [c EXCEPT !.resizeIdleTimer = TRUE, !.resizeIdleDue = c.now + resizeIdleDelay,
              !.resizeIdleRICId = FALSE]

ResizeCalls ==
    {[fn |-> "resize", done |-> FALSE, now |-> 0, resizes |-> 0, lastSignal |-> "none",
      lastResizeTime |-> 0, geometryRuns |-> 0,
      resizeIdleTimer |-> FALSE, resizeIdleDue |-> 0, resizeIdleRICId |-> FALSE,
      corrections |-> 0]}

InitResize ==
    /\ \E d \in {{}} : doc = d /\ Constructed(FALSE)
    /\ ActiveIdle
    /\ call \in ResizeCalls

\* a resize signal, lines 4161-4196, 4199-4205, 3866-3870
ResizeSignal(signal) ==
    /\ call.fn = "resize" /\ call.resizes < MaxResizes
    /\ call' = [call EXCEPT
            !.resizes = call.resizes + 1,
            !.lastSignal = signal,
            !.lastResizeTime = call.now,
            !.geometryRuns = call.geometryRuns + 1]
    /\ UNCHANGED <<schedVars, activeVars>>

\* time passes
ResizeTimePasses ==
    /\ call.fn = "resize" /\ call.now + ResizeTimeStep <= MaxResizeTime
    /\ call' = [call EXCEPT !.now = call.now + ResizeTimeStep]
    /\ UNCHANGED <<schedVars, activeVars>>

NextResize ==
    \/ \E signal \in ResizeSignals : ResizeSignal(signal)
    \/ ResizeTimePasses

SpecResize == InitResize /\ [][NextResize]_vars

----
\* The debounced rebuild in time: debounce (lines 4282-4296) around
\* recalculateAndRenderMarkers with a delay of 350 ms (line 3248), called by
\* the MutationObserver callback (lines 3803-3807), which first runs
\* ensureContainersUpToDate: when the conversation root was replaced,
\* rebindConversationContainer rebuilds at once (line 3987).  A burst is the
\* signals since the last firing of the timeout; runs counts the debounced
\* rebuilds since the last signal.  The conversation has turns.

rebuildDelay == 350

MaxSignals == 3
MaxDebounceTime == 1050
DebounceTimeStep == 175

\* mutant: debounce without its clearTimeout
TimersNotCleared(timers, timeout) == timers

\* `clearTimeout(timeout)`, line 4285
TimersAfterClear(timers, timeout) == Cancel(timers, timeout)

NoFiring == [n |-> 0, runs |-> 0, immediate |-> 0, at |-> 0, lastSignalTime |-> 0,
             gapsShort |-> TRUE]

DebounceCalls ==
    {[fn |-> "debounce", done |-> FALSE, now |-> 0, signals |-> 0,
      timeout |-> 0, timers |-> {},
      burstSignals |-> 0, lastSignalTime |-> 0, gapsShort |-> TRUE,
      runs |-> 0, immediateRuns |-> 0, fired |-> NoFiring]}

InitDebounce ==
    /\ \E d \in {{}} : doc = d /\ Constructed(FALSE)
    /\ ActiveIdle
    /\ call \in DebounceCalls

\* the MutationObserver callback, lines 3803-3807; rebind: the conversation
\* root was replaced (ensureContainersUpToDate, lines 3926-3940)
MutationSignal(rebind) ==
    /\ call.fn = "debounce" /\ call.signals < MaxSignals
    /\ LET rest == TimersAfterClear(call.timers, call.timeout)
           h == NewHandle(rest)
       IN call' = [call EXCEPT
            !.signals = call.signals + 1,
            !.timeout = h,
            !.timers = rest \cup {[id |-> h, due |-> call.now + rebuildDelay]},
            !.burstSignals = call.burstSignals + 1,
            !.lastSignalTime = call.now,
            !.runs = 0,
            !.gapsShort = IF call.burstSignals = 0 THEN TRUE
                          ELSE call.gapsShort
                                 /\ call.now - call.lastSignalTime < rebuildDelay,
            !.immediateRuns = IF rebind THEN call.immediateRuns + 1
                              ELSE call.immediateRuns]
    /\ UNCHANGED <<schedVars, activeVars>>

\* the timeout of the debounced function fires (line 4286) and runs
\* recalculateAndRenderMarkers
DebounceTimerFire(t) ==
    /\ call.fn = "debounce" /\ t \in call.timers /\ call.now >= t.due
    /\ call' = [call EXCEPT
            !.timers = call.timers \ {t},
            !.runs = call.runs + 1,
            !.fired = [n |-> call.burstSignals, runs |-> call.runs + 1,
                       immediate |-> call.immediateRuns, at |-> call.now,
                       lastSignalTime |-> call.lastSignalTime,
                       gapsShort |-> call.gapsShort],
            !.burstSignals = 0,
            !.immediateRuns = 0,
            !.gapsShort = TRUE]
    /\ UNCHANGED <<schedVars, activeVars>>

DebounceTimePasses ==
    /\ call.fn = "debounce" /\ call.now + DebounceTimeStep <= MaxDebounceTime
    /\ call' = [call EXCEPT !.now = call.now + DebounceTimeStep]
    /\ UNCHANGED <<schedVars, activeVars>>

NextDebounce ==
    \/ \E rebind \in BOOLEAN : MutationSignal(rebind)
    \/ \E t \in call.timers : DebounceTimerFire(t)
    \/ DebounceTimePasses

SpecDebounce == InitDebounce /\ [][NextDebounce]_vars

----
\* Long press: onDragHandleDown / onDragHandleMove / onDragHandleUp of the bar
\* (lines 4041-4110; pointerdown on the bar, pointermove and pointerup on
\* window) and handlePointerDown / handlePointerUp / handlePointerMove of
\* addTOCLongPressDrag (lines 6067-6141; all three on the panel).  An event
\* reaches a listener of the panel only while the pointer is over the panel, a
\* listener of window always.  dist is the distance of the pointer from the
\* press point on the axis it moved most.  A second pointer (a second finger)
\* may go down while the first is held; the handlers do not tell pointers
\* apart.  longPressTimer holds one timer id: a timer whose id was overwritten
\* by a later pointerdown stays armed (orphans) and nothing can clear it.

longPressDelay == 500
longPressMoveThreshold == 10

MaxPresses == 2
MaxLongPressTime == 1000
LongPressTimeStep == 250

PointerDistances == {5, 20}

\* the times at which a timer armed in the model can be due
LongPressDues == {t + longPressDelay : t \in 0..MaxLongPressTime}

NoDragStart == [started |-> FALSE, held |-> FALSE, maxDist |-> 0, elapsed |-> 0]

\* does the listener of pointermove / pointerup get the event?
\* bar: window (lines 4108-4109); panel: tocContainer (lines 6138-6140)
ListenerReached(kind, over) == kind = "bar" \/ over

LongPressCalls ==
    {[fn |-> "longPress", done |-> FALSE, kind |-> k, now |-> 0, presses |-> 0,
      down |-> FALSE, second |-> FALSE, over |-> FALSE, pressTime |-> 0,
      maxDist |-> 0,
      longPressTimer |-> FALSE, due |-> 0, orphans |-> {}, isLongPress |-> FALSE,
      dragging |-> FALSE, dragStart |-> NoDragStart] :
        k \in {"bar", "toc"}}

InitLongPress ==
    /\ \E d \in {{}} : doc = d /\ Constructed(FALSE)
    /\ ActiveIdle
    /\ call \in LongPressCalls

\* `this.longPressTimer = setTimeout(...)` (lines 4067, 6090) without a
\* clearTimeout of the pending timer: the timers no variable refers to any more
Overwritten(c) == IF c.longPressTimer THEN c.orphans \cup {c.due} ELSE c.orphans

\* pointerdown on the element: onDragHandleDown (lines 4041-4074),
\* handlePointerDown (lines 6075-6096)
LongPressPointerDown ==
    /\ call.fn = "longPress" /\ ~call.down /\ ~call.second /\ ~call.dragging
    /\ call.presses < MaxPresses
    /\ call' = [call EXCEPT
            !.presses = call.presses + 1,
            !.down = TRUE, !.over = TRUE, !.pressTime = call.now, !.maxDist = 0,
            !.isLongPress = FALSE,
            !.longPressTimer = TRUE, !.due = call.now + longPressDelay,
            !.orphans = Overwritten(call),
            !.dragStart = NoDragStart]
    /\ UNCHANGED <<schedVars, activeVars>>

\* pointerdown of a second pointer on the element while the first is held: the
\* same handler, which arms a new timer over the id of the pending one
LongPressSecondPointerDown ==
    /\ call.fn = "longPress" /\ call.down /\ ~call.second /\ ~call.dragging
    /\ call.presses < MaxPresses
    /\ call' = [call EXCEPT
            !.presses = call.presses + 1,
            !.second = TRUE, !.pressTime = call.now, !.maxDist = 0,
            !.isLongPress = FALSE,
            !.longPressTimer = TRUE, !.due = call.now + longPressDelay,
            !.orphans = Overwritten(call)]
    /\ UNCHANGED <<schedVars, activeVars>>

\* the pointer moves to dist from the press point and is then over the
\* element or not: onDragHandleMove (lines 4075-4091), handlePointerMove
\* (lines 6116-6130); during a drag the move goes to updateDrag / updateTOCDrag
LongPressPointerMove(dist, over) ==
    /\ call.fn = "longPress" /\ call.down
    /\ LET moved == [call EXCEPT !.over = over,
                                 !.maxDist = Max(call.maxDist, dist)]
           cancels == /\ ListenerReached(call.kind, over)
                      /\ ~call.dragging
                      /\ call.longPressTimer /\ ~call.isLongPress
                      /\ dist > longPressMoveThreshold
       IN call' = IF cancels THEN [moved EXCEPT !.longPressTimer = FALSE] ELSE moved
    /\ UNCHANGED <<schedVars, activeVars>>

\* onDragHandleUp (lines 4092-4103, endDrag 5395-5411), handlePointerUp (lines
\* 6098-6114, endTOCDrag on window): the drag ends, or the timer longPressTimer
\* refers to is cleared
\* the pointer is released: onDragHandleUp (lines 4092-4103), handlePointerUp
\* (lines 6098-6114); a drag ends by the window listener of endDrag / endTOCDrag
Released(up) ==
    IF up.dragging THEN [up EXCEPT !.dragging = FALSE, !.longPressTimer = FALSE]
    ELSE IF ListenerReached(up.kind, up.over)
    THEN [up EXCEPT !.longPressTimer = FALSE]
    ELSE up

LongPressPointerUp ==
    /\ call.fn = "longPress" /\ call.down
    /\ call' = Released([call EXCEPT !.down = FALSE])
    /\ UNCHANGED <<schedVars, activeVars>>

\* the second pointer is released: the same handlers
LongPressSecondPointerUp ==
    /\ call.fn = "longPress" /\ call.second
    /\ call' = Released([call EXCEPT !.second = FALSE])
    /\ UNCHANGED <<schedVars, activeVars>>

\* the long-press timeout fires (lines 4067-4072, 6090-6095): startDrag /
\* startTOCDrag
LongPressTimerFire ==
    /\ call.fn = "longPress" /\ call.longPressTimer /\ call.now >= call.due
    /\ call' = [call EXCEPT
            !.longPressTimer = FALSE,
            !.isLongPress = TRUE,
            !.dragging = TRUE,
            !.dragStart = [started |-> TRUE, held |-> call.down \/ call.second,
                           maxDist |-> call.maxDist,
                           elapsed |-> call.now - call.pressTime]]
    /\ UNCHANGED <<schedVars, activeVars>>

\* a timer whose id was overwritten fires: the same callback, for the
\* pointerdown that armed it
LongPressOrphanFire(due) ==
    /\ call.fn = "longPress" /\ due \in call.orphans /\ call.now >= due
    /\ call' = [call EXCEPT
            !.orphans = call.orphans \ {due},
            !.isLongPress = TRUE,
            !.dragging = TRUE,
            !.dragStart = [started |-> TRUE, held |-> call.down \/ call.second,
                           maxDist |-> call.maxDist,
                           elapsed |-> call.now - (due - longPressDelay)]]
    /\ UNCHANGED <<schedVars, activeVars>>

\* a drag that started with the pointer already released ends at the next
\* pointerup on window (a click anywhere)
LongPressStrayRelease ==
    /\ call.fn = "longPress" /\ call.dragging /\ ~call.down /\ ~call.second
    /\ call' = [call EXCEPT !.dragging = FALSE,
                            !.longPressTimer = call.longPressTimer /\ call.kind # "bar"]
    /\ UNCHANGED <<schedVars, activeVars>>

LongPressTimePasses ==
    /\ call.fn = "longPress" /\ call.now + LongPressTimeStep <= MaxLongPressTime
    /\ call' = [call EXCEPT !.now = call.now + LongPressTimeStep]
    /\ UNCHANGED <<schedVars, activeVars>>

NextLongPress ==
    \/ LongPressPointerDown
    \/ \E dist \in PointerDistances : \E over \in BOOLEAN : LongPressPointerMove(dist, over)
    \/ LongPressPointerUp
    \/ LongPressSecondPointerDown
    \/ LongPressSecondPointerUp
    \/ LongPressTimerFire
    \/ \E due \in LongPressDues : LongPressOrphanFire(due)
    \/ LongPressStrayRelease
    \/ LongPressTimePasses

SpecLongPress == InitLongPress /\ [][NextLongPress]_vars

----
\* Instances: initializeTimeline (lines 6770-6806) called by the initial
\* MutationObserver callback (6937-6960, no guard, once per batch of mutations
\* until it is disconnected), by the initialization interval (6962-6990) and by
\* processUrlChange (6893-6935), both only while timelineManagerInstance is
\* null; TimelineManager.init (3284-3324) and refreshContent (3898-3923) with
\* their awaits.  An async function suspended at an await resumes in any order
\* with the others.  The site is enabled and the conversation is in the page.

MaxInitializerCalls == 3
MaxInstances == 3

InitializerSources == {"initialObserver", "initializationInterval", "processUrlChange"}

\* the callers of initializeTimeline suspended at `await loadSettingsCache()`
InitializerWaiters == [n : 1..MaxInitializerCalls, source : InitializerSources]

\* `new TimelineManager()` followed by the call of init(), which runs up to
\* `await this.loadSettings()`
NewTimelineManager(source) ==
    [pc |-> "loadSettings", by |-> source, destroyed |-> FALSE,
     listeners |-> FALSE, observers |-> FALSE, ui |-> FALSE]

NoTimelineManager ==
    [pc |-> "none", by |-> "none", destroyed |-> FALSE,
     listeners |-> FALSE, observers |-> FALSE, ui |-> FALSE]

\* an instance with registered listeners, observers or injected UI
IsLive(m) == m.listeners \/ m.observers \/ m.ui

\* init and refreshContent go on after an await whatever happened meanwhile
\* (lines 3291-3304 and 3901-3904 test nothing)
ResumesAfterAwait(m) == TRUE

\* destroy(), lines 5175-5311: observers disconnected, listeners removed, the
\* instance's UI removed; the suspended init or refreshContent stays suspended
Destroyed(m) == [m EXCEPT !.destroyed = TRUE, !.listeners = FALSE,
                          !.observers = FALSE, !.ui = FALSE]

\* `document.querySelector('.chatgpt-timeline-bar')?.remove()`, lines 6785-6788:
\* the first bar in the document, that of the oldest instance with a bar
WithoutFirstUI(inst) ==
    LET with == {i \in DOMAIN inst : inst[i].ui}
    IN IF with = {} THEN inst
       ELSE LET first == CHOOSE i \in with : \A j \in with : i <= j
            IN [inst EXCEPT ![first].ui = FALSE]

InstanceCalls ==
    {[fn |-> "instances", done |-> FALSE,
      timelineManagerInstance |-> 0, created |-> 0, calls |-> 0,
      waiting |-> {}, observing |-> TRUE,
      inst |-> [i \in 1..MaxInstances |-> NoTimelineManager]]}

InitInstances ==
    /\ \E d \in {{}} : doc = d /\ Constructed(FALSE)
    /\ ActiveIdle
    /\ call \in InstanceCalls

\* a caller reaches `await loadSettingsCache()` of initializeTimeline
InitializerCall(source) ==
    /\ call.fn = "instances"
    /\ call.calls < MaxInitializerCalls
    /\ source = "initialObserver" => call.observing
    /\ source # "initialObserver" => call.timelineManagerInstance = 0
    /\ call' = [call EXCEPT !.calls = call.calls + 1,
                            !.waiting = call.waiting \cup
                                          {[n |-> call.calls + 1, source |-> source]}]
    /\ UNCHANGED <<schedVars, activeVars>>

\* initializeTimeline goes on after loadSettingsCache, lines 6772-6800
InitializerResume(w) ==
    /\ call.fn = "instances"
    /\ w \in call.waiting
    /\ call.created < MaxInstances
    /\ LET cur == call.timelineManagerInstance
           cleaned == IF cur = 0 THEN call.inst
                      ELSE [call.inst EXCEPT ![cur] = Destroyed(call.inst[cur])]
           new == call.created + 1
       IN call' = [call EXCEPT
             !.waiting = call.waiting \ {w},
             !.created = new,
             !.timelineManagerInstance = new,
             !.inst = [WithoutFirstUI(cleaned) EXCEPT
                         ![new] = NewTimelineManager(w.source)]]
    /\ UNCHANGED <<schedVars, activeVars>>

\* init() of instance i goes on after one of its awaits, lines 3291-3306
InstanceInitResume(i) ==
    /\ call.fn = "instances"
    /\ i \in 1..call.created
    /\ ResumesAfterAwait(call.inst[i])
    /\ LET m == call.inst[i]
       IN \/ /\ m.pc = "loadSettings"
             /\ call' = [call EXCEPT !.inst[i].pc = "findCriticalElements"]
          \/ /\ m.pc = "findCriticalElements"
             /\ call' = [call EXCEPT !.inst[i].pc = "injectTimelineUI",
                                     !.inst[i].ui = TRUE]
          \/ /\ m.pc = "injectTimelineUI"
             /\ call' = [call EXCEPT
                   !.inst[i].pc = "idle",
                   !.inst[i].listeners = TRUE,
                   !.inst[i].observers = TRUE,
                   !.observing = call.observing /\ m.by # "initialObserver"]
    /\ UNCHANGED <<schedVars, activeVars>>

\* processUrlChange with an instance: refreshContent() runs up to
\* `await this.findCriticalElements()`, lines 6900-6903 and 3901
InstanceRefreshContent ==
    /\ call.fn = "instances"
    /\ call.calls < MaxInitializerCalls
    /\ call.timelineManagerInstance # 0
    /\ call.inst[call.timelineManagerInstance].pc = "idle"
    /\ call' = [call EXCEPT !.calls = call.calls + 1,
                            !.inst[call.timelineManagerInstance].pc = "refreshContent"]
    /\ UNCHANGED <<schedVars, activeVars>>

\* refreshContent() of instance i goes on: setupObservers, lines 3903-3907
InstanceRefreshResume(i) ==
    /\ call.fn = "instances"
    /\ i \in 1..call.created
    /\ call.inst[i].pc = "refreshContent"
    /\ ResumesAfterAwait(call.inst[i])
    /\ call' = [call EXCEPT !.inst[i].pc = "idle", !.inst[i].observers = TRUE]
    /\ UNCHANGED <<schedVars, activeVars>>

NextInstances ==
    \/ \E s \in InitializerSources : InitializerCall(s)
    \/ \E w \in InitializerWaiters : InitializerResume(w)
    \/ \E i \in 1..MaxInstances : InstanceInitResume(i)
    \/ InstanceRefreshContent
    \/ \E i \in 1..MaxInstances : InstanceRefreshResume(i)

SpecInstances == InitInstances /\ [][NextInstances]_vars

----
\* Tooltip: showTooltipForDot (lines 4691-4712) and hideTooltip (4714-4724),
\* called by the mouseover / focusin and mouseout / focusout listeners of the
\* bar (4119-4135), with the animation-frame callback of the show and the
\* timeout of the hide.  A frame callback runs at the next rendering
\* opportunity, which may come after a timeout of 100 ms has fired.

tooltipHideDelay == 100

MaxTooltipRequests == 3
MaxTooltipTime == 300
TooltipTimeStep == 50

TooltipCalls ==
    {[fn |-> "tooltip", done |-> FALSE, now |-> 0, requests |-> 0, last |-> "none",
      visible |-> FALSE, ariaHidden |-> TRUE,
      showRafId |-> FALSE, tooltipHideTimer |-> FALSE, due |-> 0]}

InitTooltip ==
    /\ \E d \in {{}} : doc = d /\ Constructed(FALSE)
    /\ ActiveIdle
    /\ call \in TooltipCalls

\* hideTooltip leaves showRafId alone (lines 4714-4724)
FrameKeptByHide(c) == c.showRafId

\* showTooltipForDot(dot), lines 4691-4712
TooltipShow ==
    /\ call.fn = "tooltip" /\ call.requests < MaxTooltipRequests
    /\ call' = [call EXCEPT
            !.requests = call.requests + 1, !.last = "show",
            !.tooltipHideTimer = FALSE,
            !.visible = FALSE, !.ariaHidden = FALSE,
            !.showRafId = TRUE]
    /\ UNCHANGED <<schedVars, activeVars>>

\* hideTooltip(), lines 4714-4724, as the listeners call it (immediate false)
TooltipHide ==
    /\ call.fn = "tooltip" /\ call.requests < MaxTooltipRequests
    /\ call.now + tooltipHideDelay <= MaxTooltipTime
    /\ call' = [call EXCEPT
            !.requests = call.requests + 1, !.last = "hide",
            !.tooltipHideTimer = TRUE, !.due = call.now + tooltipHideDelay,
            !.showRafId = FrameKeptByHide(call)]
    /\ UNCHANGED <<schedVars, activeVars>>

\* the animation-frame callback of the show, lines 4708-4711
TooltipShowFrame ==
    /\ call.fn = "tooltip" /\ call.showRafId
    /\ call' = [call EXCEPT !.showRafId = FALSE, !.visible = TRUE]
    /\ UNCHANGED <<schedVars, activeVars>>

\* doHide by the timeout, lines 4716-4720
TooltipHideTimerFire ==
    /\ call.fn = "tooltip" /\ call.tooltipHideTimer /\ call.now >= call.due
    /\ call' = [call EXCEPT !.tooltipHideTimer = FALSE,
                            !.visible = FALSE, !.ariaHidden = TRUE]
    /\ UNCHANGED <<schedVars, activeVars>>

TooltipTimePasses ==
    /\ call.fn = "tooltip" /\ call.now + TooltipTimeStep <= MaxTooltipTime
    /\ call' = [call EXCEPT !.now = call.now + TooltipTimeStep]
    /\ UNCHANGED <<schedVars, activeVars>>

NextTooltip ==
    \/ TooltipShow
    \/ TooltipHide
    \/ TooltipShowFrame
    \/ TooltipHideTimerFire
    \/ TooltipTimePasses

SpecTooltip == InitTooltip /\ [][NextTooltip]_vars

\* a requested frame is run, an armed timeout fires, time goes on
SpecTooltipLive ==
    /\ SpecTooltip
    /\ WF_vars(TooltipShowFrame)
    /\ WF_vars(TooltipHideTimerFire)
    /\ WF_vars(TooltipTimePasses)

----
\* Properties

RecalcStep ==
    \/ RefreshContent
    \/ \E t \in rebuildTimers : RebuildTimerFire(t)
    \/ \E t \in zeroTimers : ZeroTurnsTimerFire(t)

\* C1: coalescing.  While consecutive evaluations store candidates (each one
\* different from the active id, each less than minActiveChangeInterval after
\* the last committed change) activeTurnId does not change, and when the timer
\* then fires exactly one change is committed, to the last candidate stored.
C1_Coalescing ==
    [][ /\ (burst'.k > 0 => activeTurnId' = activeTurnId)
        /\ \A t \in commitTimers :
             (ActiveChangeTimerFire(t) /\ burst.k > 0)
                => (activeTurnId' = burst.last /\ activeTurnId' # activeTurnId) ]_vars

\* the timer has just committed a burst of two or more evaluations whose first
\* and last candidates differ
C1_Witness ==
    /\ firedBurst.k >= 2
    /\ firedBurst.first # firedBurst.last
    /\ activeTurnId = firedBurst.last

\* C2: at most one active-change commit timer is outstanding; the field
\* activeChangeTimer is null exactly when none is pending, it names the pending
\* one otherwise, and a timer is armed only when the field is null.
C2_OneCommitTimer ==
    /\ [](/\ Cardinality(commitTimers) <= 1
          /\ (activeChangeTimer = NULL <=> commitTimers = {})
          /\ \A t \in commitTimers : t.id = activeChangeTimer)
    /\ [][ ~(commitTimers' \subseteq commitTimers) => activeChangeTimer = NULL ]_vars

\* a second candidate was stored while the timer of the first is still pending
C2_Witness ==
    /\ burst.k >= 2
    /\ Cardinality(commitTimers) = 1
    /\ pendingActiveId # NULL

\* C3: activeTurnId is null or the id of a current marker (hence null when
\* there are no markers).
C3_ActiveIdIsMarker == activeTurnId = NULL \/ activeTurnId \in Ids(markers)

\* C4: after destroy() has returned no timer, frame callback or timeout armed
\* by the instance is still pending.
C4_NothingPendingAfterDestroy ==
    destroyed => /\ commitTimers = {}
                 /\ rafCallbacks = {}
                 /\ zeroTimers = {}
                 /\ rebuildTimers = {}
                 /\ tocTimers = {}

\* C5 as stated: at most one recompute pass (geometry, track sync, render) runs
\* per animation frame, whatever signals fire within it.
C5_OnePassPerFrame == renderRuns <= 1

\* C5 as amended: at most one scroll-sync pass is scheduled and at most one
\* runs per animation frame; requests made while one is scheduled are dropped.
C5_OneGatePassPerFrame ==
    /\ gatePasses <= 1
    /\ Cardinality(rafCallbacks) <= 1
    /\ Cardinality(frameQueue) <= 1
    /\ (scrollRafId = NULL <=> rafCallbacks \cup frameQueue = {})

\* two or more requests since the frame began, one pass scheduled
C5_Witness ==
    /\ requests >= 2
    /\ Cardinality(rafCallbacks) = 1
    /\ Len(markers) > 0

IsAscending(tops) == \A i \in 1..(Len(tops) - 1) : tops[i] <= tops[i + 1]

\* the last marker whose offset is <= ref, the first marker when none is
LastAtOrAbove(tops, ref20) ==
    LET q == {i \in 1..Len(tops) : 20 * tops[i] <= ref20}
    IN IF q = {} THEN 1 ELSE CHOOSE i \in q : \A j \in q : j <= i

\* C6: for a non-empty marker list with ascending offsets the scan selects the
\* last marker whose offset is <= ref, and the first marker when none qualifies.
C6_ActiveIsLastPassed ==
    (outIdx1 # 0 /\ IsAscending(inTops)) => outIdx1 = LastAtOrAbove(inTops, inRef1)

\* offsets [0,100,250] with ref 120 select the marker at 100
C6_Witness ==
    /\ inTops = <<0, 100, 250>>
    /\ inRef1 = 20 * 120
    /\ outIdx1 = 2

\* C7: for a fixed marker list and ref1 <= ref2 the index selected for ref2 is
\* at least the index selected for ref1.
C7_Monotonic ==
    (outIdx1 # 0 /\ outIdx2 # 0 /\ inRef1 <= inRef2) => outIdx1 <= outIdx2

\* both lines evaluated, the larger one selects a later marker
C7_Witness ==
    /\ outIdx1 # 0 /\ outIdx2 # 0
    /\ inRef1 < inRef2
    /\ outIdx1 < outIdx2

\* C8: a rebuild that finds zero turns leaves markers, dots, activeTurnId and
\* markersVersion unchanged and leaves exactly one retry timer pending (it arms
\* one only if none is pending).
C8_ZeroTurnsTransient ==
    [][ (RecalcStep /\ scrollContainer /\ doc' = {})
          => /\ markers' = markers
             /\ dots' = dots
             /\ activeTurnId' = activeTurnId
             /\ markersVersion' = markersVersion
             /\ Cardinality(zeroTimers') = 1
             /\ \A t \in zeroTimers' : t.id = zeroTurnsTimer' ]_vars

\* the document is empty, the retry is pending and the markers built before
\* are still there
C8_Witness ==
    /\ doc = {}
    /\ zeroTimers # {}
    /\ Len(markers) > 0
    /\ dots = IdSeq(markers)
    /\ activeTurnId # NULL

\* C9: when the zero-turns retry runs and the document still has no turns, zero
\* turns is treated as real: the markers are cleared and no retry is re-armed.
C9_ZeroTurnsBecomeReal ==
    [][ \A t \in zeroTimers :
          (ZeroTurnsTimerFire(t) /\ scrollContainer /\ doc = {})
             => (markers' = <<>> /\ zeroTimers' = {}) ]_vars

\* C10: a commit timer armed before a rebuild replaced the markers does not
\* write activeTurnId when it fires after the rebuild.
C10_StaleCommitAborts ==
    [][ \A t \in commitTimers :
          (ActiveChangeTimerFire(t) /\ t.ver # markersVersion)
             => activeTurnId' = activeTurnId ]_vars

\* C11 as stated: for every marker count N >= 2, bar height H and padding P
\* (H <= 2P included) the positions computed by updateTimelineGeometry strictly
\* increase with the marker index and every position lies within [P, H-P].
C11_PositionsIncreaseWithinBar ==
    (call.fn = "updateTimelineGeometry" /\ call.done /\ call.N >= 2) =>
        /\ \A k \in 1..(call.N - 1) : NumLT(call.yPositions[k], call.yPositions[k + 1])
        /\ \A k \in 1..call.N :
             /\ NumLE(Num(call.pad), call.yPositions[k])
             /\ NumLE(call.yPositions[k], Num(call.barHeight - call.pad))

\* C11 as amended: for N >= 2 and H > 2P the positions strictly increase with
\* the marker index and lie within [P, H-P]; for H <= 2P every position is P.
C11_PositionsIncreaseWhenUsable ==
    (call.fn = "updateTimelineGeometry" /\ call.done /\ call.N >= 2) =>
        IF call.barHeight > 2 * call.pad
        THEN /\ \A k \in 1..(call.N - 1) :
                  NumLT(call.yPositions[k], call.yPositions[k + 1])
             /\ \A k \in 1..call.N :
                  /\ NumLE(Num(call.pad), call.yPositions[k])
                  /\ NumLE(call.yPositions[k], Num(call.barHeight - call.pad))
        ELSE \A k \in 1..call.N : NumEQ(call.yPositions[k], Num(call.pad))

\* three markers on a bar with room: the middle one lies strictly between the
\* padding lines, at a position that is not a whole pixel
C11_Witness ==
    /\ call.fn = "updateTimelineGeometry" /\ call.done
    /\ call.N = 3 /\ call.barHeight = 29 /\ call.pad = 12
    /\ NumEQ(call.yPositions[2], [num |-> 29, den |-> 2])
    /\ NumEQ(call.yPositions[3], Num(17))

\* C12: for every list of desired positions, minTop <= maxTop and gap >= 0,
\* every output of applyMinGap lies in [minTop, maxTop], and when
\* gap*(N-1) <= maxTop-minTop every adjacent pair of outputs differs by at
\* least gap.
C12_MinGapEnforced ==
    (call.fn = "applyMinGap" /\ call.done) =>
        LET n == Len(call.positions)
        IN /\ Len(call.out) = n
           /\ \A i \in 1..n : call.minTop <= call.out[i] /\ call.out[i] <= call.maxTop
           /\ (call.gap * (n - 1) <= call.maxTop - call.minTop) =>
                 \A i \in 1..(n - 1) : call.out[i + 1] - call.out[i] >= call.gap

\* three equal desired positions near the bottom are spread upwards by the
\* backward pass
C12_Witness ==
    /\ call.fn = "applyMinGap" /\ call.done
    /\ call.positions = <<5, 5, 5>>
    /\ call.minTop = 0 /\ call.maxTop = 6 /\ call.gap = 2
    /\ call.out = <<2, 4, 6>>

\* C13: for every raw gap, count >= 0 and usableHeight (values <= 0 included)
\* the result g of getEffectiveMinGap satisfies
\* g <= max(0, usableHeight) / max(1, count-1).
C13_EffectiveGapFeasible ==
    (call.fn = "getEffectiveMinGap" /\ call.done) =>
        NumLE(call.result,
              NumDiv(Num(Max(0, call.usableHeight)), Num(Max(1, call.count - 1))))

\* C14: for N >= 2 and barHeight <= 2*padding, updateTimelineGeometry gives
\* each marker a defined normalized position n with 0 <= n <= 1.
C14_NormalizedDefined ==
    (/\ call.fn = "updateTimelineGeometry" /\ call.done
     /\ call.N >= 2 /\ call.barHeight <= 2 * call.pad) =>
        \A k \in 1..call.N :
            /\ ~IsNaN(call.ns[k])
            /\ NumLE(Num(0), call.ns[k])
            /\ NumLE(call.ns[k], Num(1))

\* r * maxTrackScroll of the claim, with
\* r = clamp((scrollTop + 0.45*clientHeight - firstMarkerOffset) / contentSpan, 0, 1)
C15_Ideal(c) ==
    LET x == NumDiv(Num(20 * c.scrollTop + 9 * c.clientHeight - 20 * c.firstUserTurnOffset),
                    Num(20 * c.contentSpanPx))
        r == IF NumLT(x, Num(0)) THEN Num(0) ELSE IF NumLT(Num(1), x) THEN Num(1) ELSE x
    IN NumMul(r, Num(c.contentHeight - c.trackHeight))

\* C15 as stated: after syncTimelineTrackToMain the track scroll is within 1 px
\* of r * maxTrackScroll when the content overflows the track viewport and no
\* slider drag is active, and it is 0 in every other case.
C15_TrackScrollFollowsMain ==
    (call.fn = "syncTimelineTrackToMain" /\ call.done) =>
        IF call.contentHeight > call.trackHeight /\ ~call.sliderDragging
        THEN /\ NumLE(NumSub(Num(call.after), C15_Ideal(call)), Num(1))
             /\ NumLE(NumSub(C15_Ideal(call), Num(call.after)), Num(1))
        ELSE call.after = 0

\* C15 as amended: with a track viewport of positive height, the track scroll
\* after the call is 0 when the content fits (contentHeight <= height + 1); it
\* is within 1 px of round(r * maxTrackScroll) when the content overflows and no
\* slider drag is active; it is left as it was when the content overflows and a
\* slider drag is active, and when the track viewport has no height.
C15_TrackScrollSynced ==
    (call.fn = "syncTimelineTrackToMain" /\ call.done) =>
        IF call.trackHeight <= 0 THEN call.after = call.trackScrollTop
        ELSE IF call.contentHeight <= call.trackHeight + 1 THEN call.after = 0
        ELSE IF call.sliderDragging THEN call.after = call.trackScrollTop
        ELSE Abs(call.after - MathRound(C15_Ideal(call))) <= 1

\* overflowing content, no drag: the track was at 0 and is moved to the target
C15_Witness ==
    /\ call.fn = "syncTimelineTrackToMain" /\ call.done
    /\ call.contentHeight = 30 /\ call.trackHeight = 20 /\ ~call.sliderDragging
    /\ call.trackScrollTop = 0
    /\ call.scrollTop = 75 /\ call.firstUserTurnOffset = 0 /\ call.contentSpanPx = 250
    /\ call.after = 5

\* room for the tooltip on each side of the anchor, from the rectangle
C16_Room(c, side) ==
    LET x == IF side = "left"
             THEN NumSub([num |-> c.left2, den |-> 2], Num(34))
             ELSE NumSub(NumSub(Num(c.vw), [num |-> c.left2 + 2 * c.dotWidth, den |-> 2]),
                         Num(34))
    IN IF NumLT(x, Num(0)) THEN Num(0) ELSE x

C17_TruncatedFitsBudget ==
    (call.fn = "truncateToThreeLines") =>
        /\ (call.done1 => call.out1.height <= 76)
        /\ (call.done2 => call.out2.height <= 76)

\* C18: for one text and two widths w1 <= w2 the prefix returned for w1 is not
\* longer than the prefix returned for w2.
C18_NarrowerIsNotLonger ==
    (call.fn = "truncateToThreeLines" /\ call.done1 /\ call.done2) =>
        Len(call.out1.prefix) <= Len(call.out2.prefix)

\* both widths truncate, the narrower one to a strictly shorter prefix
C18_Witness ==
    /\ call.fn = "truncateToThreeLines" /\ call.done1 /\ call.done2
    /\ call.out1.ellipsis /\ call.out2.ellipsis
    /\ Len(call.out1.prefix) < Len(call.out2.prefix)
    /\ Len(call.out1.prefix) > 0

\* |a - b| <= 1
C19_Within1px(a, b) == NumLE(NumSub(a, b), Num(1)) /\ NumLE(NumSub(b, a), Num(1))

\* C19: the position saved at the end of a drag gesture and restored in the
\* same viewport is written within 1 px of the original on each axis, for the
\* timeline bar and for the TOC panel.
C19_RoundTripWithin1px ==
    (call.fn = "drag" /\ call.phase = "restored"
        /\ call.saved.windowWidth = call.W /\ call.saved.windowHeight = call.H) =>
        /\ C19_Within1px(call.restoredX, call.endX)
        /\ C19_Within1px(call.restoredTop, call.endTop)

\* the overflow of position x beyond the boundary on the given side
C20_Overflow(x, lo, hi, side) == IF side = "low" THEN NumSub(lo, x) ELSE NumSub(x, hi)

\* on one axis: whenever raw exceeds a boundary by d > 0, the damped and the
\* applied position exceed that boundary by less than d
C20_Damped(raw, damped, applied, lo, hi) ==
    \A side \in {"low", "high"} :
        LET d == C20_Overflow(raw, lo, hi, side)
        IN NumLT(Num(0), d) =>
             /\ NumLT(C20_Overflow(damped, lo, hi, side), d)
             /\ NumLT(C20_Overflow(applied, lo, hi, side), d)

\* C20 as stated: in updateDrag and updateTOCDrag, whenever the raw position
\* exceeds a boundary margin by d > 0 on an axis, the applied position exceeds
\* that margin by strictly less than d.
C20_BounceDamped ==
    (call.fn = "drag" /\ call.moved) =>
        /\ C20_Damped(call.rawX, call.dampedX, call.appliedX,
                      Num(10), Num(call.W - call.w - 10))
        /\ C20_Damped(call.rawY, call.dampedY, call.appliedY,
                      Num(10), Num(call.H - call.h - 10))

\* C20 as amended: the same, on every axis on which the box fits between the
\* two margins (extent of the viewport >= extent of the box + 20).
C20_BounceDampedWhenFits ==
    (call.fn = "drag" /\ call.moved) =>
        /\ (call.W >= call.w + 20) =>
               C20_Damped(call.rawX, call.dampedX, call.appliedX,
                          Num(10), Num(call.W - call.w - 10))
        /\ (call.H >= call.h + 20) =>
               C20_Damped(call.rawY, call.dampedY, call.appliedY,
                          Num(10), Num(call.H - call.h - 10))

\* the panel pulled 60 px past the left margin and past the bottom margin:
\* it is written 24 px past the left margin
C20_Witness ==
    /\ call.fn = "drag" /\ call.kind = "toc" /\ call.moved
    /\ call.W = 400 /\ call.w = 200
    /\ NumEQ(call.rawX, Num(-50))
    /\ NumEQ(call.appliedX, Num(-14))
    /\ NumLT(Num(call.H - call.h - 10), call.rawY)
    /\ NumLT(call.appliedY, call.rawY)

\* C21 (as stated): when a storage read or write fails in loadSettings,
\* saveSettings, savePosition, restorePosition, saveTOCPosition or
\* restoreTOCPosition, the error does not leave the operation, the settings
\* and the positions in memory are the ones before the operation, no retry is
\* scheduled, and init() still injects the UI and registers its listeners.
C21_FailureChangesNothing ==
    (call.fn = "persist" /\ call.last.failed # "none") =>
        /\ ~call.propagated
        /\ call.last.after = call.last.before
        /\ call.retryTimers = 0
        /\ (call.last.op = "init" => call.injected /\ call.listeners)

\* C21 (amended): the same, except that a restore whose read succeeded has
\* applied the stored position before its write-back fails.
C21_FailureNeverBlocks ==
    (call.fn = "persist" /\ call.last.failed # "none") =>
        /\ ~call.propagated
        /\ call.last.after.settings = call.last.before.settings
        /\ (call.last.failed = "read" => call.last.after = call.last.before)
        /\ (call.last.failed = "write"
                /\ call.last.op \notin {"restorePosition", "restoreTOCPosition"}
              => call.last.after = call.last.before)
        /\ call.retryTimers = 0
        /\ (call.last.op = "init" => call.injected /\ call.listeners)

\* the settings read fails during init() and the UI is injected all the same
C21_Witness ==
    /\ call.fn = "persist"
    /\ call.last.op = "init" /\ call.last.failed = "read"
    /\ call.storedSettings.present /\ ~call.storedSettings.enabled
    /\ call.injected /\ call.listeners

\* C22 (as stated): when conversation elements never appear,
\* findCriticalElements makes at most 5 attempts, attemptProcessUrlChange at
\* most 8 per URL change and the initialization interval at most 10 ticks; an
\* exhausted loop schedules nothing more, the timeline stays inactive and no
\* error propagates.
C22_FindExhausted == call.findAttempt = maxRetries /\ ~call.finding
C22_UrlExhausted == call.urlAttempt = URL_CHANGE_MAX_ATTEMPTS
C22_IntervalExhausted == call.ticks = maxInitializationAttempts
C22_Bounded ==
    /\ call.findAttempt <= maxRetries
    /\ call.urlAttempt <= URL_CHANGE_MAX_ATTEMPTS
    /\ call.ticks <= maxInitializationAttempts
    /\ (C22_UrlExhausted => ~call.initTimerId)
    /\ (C22_IntervalExhausted => ~call.intervalActive)
    /\ ~call.propagated

C23_NothingAttachedAfterDestroy ==
    (call.fn = "listeners" /\ call.phase = "destroyed") =>
        call.attached = {} /\ call.observers = {}

\* C24: once the resize signals have stopped for the settle delay (140 ms) and
\* the idle callback's timeout (200 ms), the min-gap correction pass has run,
\* and it has run once.
C24_CorrectionRunsAfterSettle ==
    (call.fn = "resize" /\ call.resizes > 0
        /\ call.now >= call.lastResizeTime + resizeIdleDelay + idleCallbackTimeout)
      => call.corrections = 1

\* C25 (as stated): at most one rebuild timer is pending, and a burst of n
\* mutation signals less than 350 ms apart causes exactly one marker rebuild,
\* which runs after the last signal.
C25_OneTimerPending == call.fn = "debounce" => Cardinality(call.timers) <= 1
C25_FiringClosesBurst ==
    (call.fn = "debounce" /\ call.fired.runs > 0) =>
        /\ call.fired.n >= 1
        /\ call.fired.at >= call.fired.lastSignalTime + rebuildDelay

C25_OneRebuildPerBurst ==
    /\ C25_OneTimerPending
    /\ C25_FiringClosesBurst
    /\ (call.fn = "debounce" /\ call.fired.runs > 0 /\ call.fired.gapsShort)
          => call.fired.runs + call.fired.immediate = 1

\* C25 (amended): at most one rebuild timer is pending, and a burst causes
\* exactly one debounced rebuild, 350 ms or more after its last signal; a
\* signal that finds the conversation root replaced rebuilds at once as well.
C25_OneDebouncedRebuildPerBurst ==
    /\ C25_OneTimerPending
    /\ C25_FiringClosesBurst
    /\ (call.fn = "debounce" /\ call.fired.runs > 0 /\ call.fired.gapsShort)
          => call.fired.runs = 1

\* a burst of three signals, 175 ms apart, closed by one rebuild
C25_Witness ==
    /\ call.fn = "debounce" /\ call.fired.n = 3 /\ call.fired.gapsShort
    /\ call.fired.lastSignalTime = 350 /\ call.fired.at = 700
    /\ call.fired.immediate = 0 /\ call.timers = {}

\* C26: at every pointer move of a TOC drag and after the release, the panel
\* lies within the viewport: left >= 0, top >= 0, left + width <= innerWidth,
\* top + height <= innerHeight.
C26_TOCWithinViewport ==
    (call.fn = "drag" /\ call.kind = "toc"
        /\ (call.phase = "released" \/ (call.phase = "dragging" /\ call.moved))) =>
        /\ NumLE(Num(0), call.left)
        /\ NumLE(Num(0), call.top)
        /\ NumLE(NumAdd(call.left, Num(call.w)), Num(call.W))
        /\ NumLE(NumAdd(call.top, Num(call.h)), Num(call.H))

\* C27: a drag of the bar or of the TOC panel starts only when the pointer
\* has been held down for 500 ms without moving more than 10 px from the press
\* point; a release or a longer move before the delay means no drag starts.
C27_DragOnlyAfterLongPress ==
    (call.fn = "longPress" /\ call.dragStart.started) =>
        /\ call.dragStart.held
        /\ call.dragStart.maxDist <= longPressMoveThreshold
        /\ call.dragStart.elapsed >= longPressDelay


\* C28: when the active-change timer fires while pendingActiveId is null or
\* equal to activeTurnId, activeTurnId and lastActiveChangeTime keep their
\* values; after every firing, committing or not, pendingActiveId and
\* activeChangeTimer are null.
C28_FiringClearsPending ==
    [][ \A t \in commitTimers :
          ActiveChangeTimerFire(t) =>
             /\ pendingActiveId' = NULL
             /\ activeChangeTimer' = NULL
             /\ (pendingActiveId = NULL \/ pendingActiveId = activeTurnId)
                   => /\ activeTurnId' = activeTurnId
                      /\ lastActiveChangeTime' = lastActiveChangeTime ]_vars

\* the timer has just fired without committing: the candidate it was armed for
\* had already been committed by a later evaluation, made after the interval
\* had elapsed and before the timer callback ran
C28_Witness ==
    /\ firedBurst.k = 0
    /\ firedBurst.sel # NULL
    /\ activeTurnId = firedBurst.sel
    /\ lastActiveChangeTime < now
    /\ pendingActiveId = NULL
    /\ activeChangeTimer = NULL

\* C29: whenever the active-change timer fires, the active id after the firing
\* is the id selected by the most recent evaluation of computeActiveByScroll
\* before the firing; an evaluation that re-selected the active id keeps the
\* earlier pending candidate from being committed.
C29_FiringCommitsLatestSelection ==
    [][ \A t \in commitTimers :
          (ActiveChangeTimerFire(t) /\ burst.sel # NULL)
             => activeTurnId' = burst.sel ]_vars


\* C30: while a candidate is only pending, that is in every step that stores a
\* candidate in pendingActiveId or leaves the stored candidates waiting for the
\* armed timer, activeTurnId, lastActiveChangeTime and the highlighted dot keep
\* their values: storing a candidate updates no marker.
C30_PendingChangesNothing ==
    [][ burst'.k > 0 =>
          /\ activeTurnId' = activeTurnId
          /\ lastActiveChangeTime' = lastActiveChangeTime
          /\ activeDot' = activeDot ]_vars

\* a second candidate has been stored while the timer is armed, and the dot of
\* the active marker, not the candidate's, carries the highlight
C30_Witness ==
    /\ burst.k >= 2
    /\ pendingActiveId = burst.last
    /\ activeChangeTimer # NULL
    /\ activeDot # NULL
    /\ activeDot = activeTurnId
    /\ activeDot # pendingActiveId


\* C31: change-rate limit.  Two consecutive committed changes of activeTurnId
\* are at least minActiveChangeInterval apart: a step that commits a change
\* after an earlier commit (lastActiveChangeTime holds its time) is taken no
\* sooner than minActiveChangeInterval after it, also when the timer fires
\* late and a frame evaluation has committed in between.
C31_CommitsAtLeastIntervalApart ==
    [][ ( /\ activeTurnId # NULL /\ activeTurnId' # NULL
          /\ activeTurnId' # activeTurnId
          /\ lastActiveChangeTime > 0 )
            => now - lastActiveChangeTime >= minActiveChangeInterval ]_vars


\* the result out of truncateToThreeLines(text, layout), when the whole text
\* does not fit: no prefix longer than the returned one fits with the
\* ellipsis, and when some prefix fits, the returned one fits and ends with
\* the ellipsis
C32_LongestFitting(text, layout, out) ==
    LET raw == NormalizeText(text)
        fitting == {k \in 0..Len(raw) : CandidateHeight(raw, layout, k) <= maxH}
    IN OffsetHeight(layout.full) > maxH =>
         /\ \A k \in fitting : Len(TrimmedPrefix(raw, k)) <= Len(out.prefix)
         /\ fitting # {} =>
               /\ out.ellipsis
               /\ out.height <= maxH
               /\ \E k \in fitting : out.prefix = TrimmedPrefix(raw, k)

\* C32: when the full text does not fit and the layout is monotonic in the
\* prefix length, the binary search of truncateToThreeLines ends and returns
\* the longest prefix that fits with the ellipsis: no longer prefix fits.
C32_SearchReturnsLongestPrefix ==
    (call.fn = "truncateToThreeLines") =>
        /\ (call.done1 => C32_LongestFitting(call.text, call.narrow, call.out1))
        /\ (call.done2 => C32_LongestFitting(call.text, call.wide, call.out2))

\* a text of three visible characters on four lines was cut to its first two
\* characters: two fit with the ellipsis, three do not
C32_Witness ==
    /\ call.fn = "truncateToThreeLines" /\ call.done1
    /\ call.text = <<"a", "a", "a">>
    /\ OffsetHeight(call.narrow.full) > maxH
    /\ call.out1.ellipsis
    /\ Len(call.out1.prefix) = 2
    /\ CandidateHeight(call.text, call.narrow, 3) > maxH


\* x lies within [margin, viewport - size - margin] when that interval is not
\* empty
C33_WithinMargins(x, viewport, size) ==
    margin <= viewport - size - margin =>
        /\ NumLE(Num(margin), x)
        /\ NumLE(x, Num(viewport - size - margin))

\* C33: for every stored position and every current viewport, the position
\* written by restorePosition (right, top) and by restoreTOCPosition (left,
\* top) lies within [margin, viewport - size - margin] on each axis whenever
\* the element fits between the margins.
C33_RestoreWithinMargins ==
    (call.fn = "drag" /\ call.phase = "restored") =>
        /\ C33_WithinMargins(call.restoredX, call.W, call.w)
        /\ C33_WithinMargins(call.restoredTop, call.H, call.h)


\* C34: for every list of desired positions in any order, every gap >= 0 and
\* minTop <= maxTop, feasible or not, the output of applyMinGap is
\* non-decreasing in index order.
C34_OutputNonDecreasing ==
    (call.fn = "applyMinGap" /\ call.done) =>
        \A i \in 1..(Len(call.out) - 1) : call.out[i] <= call.out[i + 1]

\* desired positions in descending order with a gap that does not fit: the
\* output is in order, the last two markers share the bottom
C34_Witness ==
    /\ call.fn = "applyMinGap" /\ call.done
    /\ call.positions = <<6, 3, 0>>
    /\ call.minTop = 1 /\ call.maxTop = 4 /\ call.gap = 2
    /\ call.gap * 2 > call.maxTop - call.minTop
    /\ call.out[1] <= call.out[2] /\ call.out[2] <= call.out[3]
    /\ call.out[1] < call.out[3]


\* a single marker has n = 0.5 and pixel position padding + usableHeight / 2
\* (twice the position is 2 * padding + usableHeight)
C35_Centred ==
    (call.fn = "updateTimelineGeometry" /\ call.done /\ call.N = 1) =>
        /\ Len(call.ns) = 1 /\ Len(call.yPositions) = 1
        /\ NumEQ(NumMul(Num(2), call.ns[1]), Num(1))
        /\ NumEQ(NumMul(Num(2), call.yPositions[1]),
                 Num(2 * call.pad + Max(0, call.barHeight - 2 * call.pad)))

\* C35 as stated: for a single marker updateTimelineGeometry sets the marker's
\* n to 0.5 and its pixel position to padding + usableHeight / 2, and a bar of
\* height 200 with padding 12 gives pixel position 106.
C35_SingleMarkerAt106 ==
    /\ C35_Centred
    /\ (call.fn = "updateTimelineGeometry" /\ call.done) =>
          /\ NumEQ(NumMul(Num(2), MarkerNsOf(200, 12, 1)[1]), Num(1))
          /\ NumEQ(yPositionsOf(200, 12, 1)[1], Num(106))

\* C35 as amended: the same, and a bar of height 200 with padding 12 gives
\* pixel position 100 (usableHeight = 200 - 2 * 12 = 176).
C35_SingleMarkerCentred ==
    /\ C35_Centred
    /\ (call.fn = "updateTimelineGeometry" /\ call.done) =>
          /\ NumEQ(NumMul(Num(2), MarkerNsOf(200, 12, 1)[1]), Num(1))
          /\ NumEQ(yPositionsOf(200, 12, 1)[1], Num(100))

\* one marker on a bar of height 30 with padding 12 sits at 15, the middle
C35_Witness ==
    /\ call.fn = "updateTimelineGeometry" /\ call.done
    /\ call.N = 1 /\ call.barHeight = 30 /\ call.pad = 12
    /\ NumEQ(call.yPositions[1], Num(15))
    /\ NumEQ(NumMul(Num(2), call.ns[1]), Num(1))


\* C36: at most one TimelineManager instance is live (has listeners, observers
\* or injected UI) at any time, and an instance destroyed while its init() or
\* refreshContent() was suspended has no listeners and no observers afterwards.
C36_OneLiveInstance ==
    (call.fn = "instances") =>
        /\ Cardinality({i \in 1..MaxInstances : IsLive(call.inst[i])}) <= 1
        /\ \A i \in 1..MaxInstances :
              call.inst[i].destroyed =>
                 ~call.inst[i].listeners /\ ~call.inst[i].observers


\* C37: a drag is active only while a pointer is held down: no long-press
\* timer fires when no pointer is held (after the pointerup that ends the
\* press), and isDragging / tocDragging is false whenever no pointer is held,
\* in every interleaving of pointerdown, pointermove, pointerup and timer
\* firings, a second pointerdown before the first timer fired included.
C37_DragOnlyWhilePointerHeld ==
    (call.fn = "longPress") =>
        /\ (~call.down /\ ~call.second) => ~call.dragging
        /\ call.isLongPress => (call.dragStart.started /\ call.dragStart.held)


\* C38: after a tooltip hide request that is not followed by any show request,
\* the tooltip eventually becomes hidden and stays hidden, in every
\* interleaving of the pending show frame callback and the hide timer.
C38_HiddenAfterLastHide ==
    <>[]((call.fn = "tooltip" /\ call.last = "hide") => ~call.visible)


\* C39: a drag move of the bar with zero pointer delta leaves the bar where it
\* was at gesture start: for every start rectangle inside the margins,
\* updateDrag with clientX = dragStartX and clientY = dragStartY writes a right
\* and a top offset equal to the bar's offsets captured at startDrag.
C39_ZeroDeltaKeepsBar ==
    (/\ call.fn = "drag" /\ call.kind = "bar"
     /\ call.phase = "dragging" /\ call.moved
     /\ NumEQ(call.rawX, call.startX) /\ NumEQ(call.rawY, call.startY)) =>
        /\ NumEQ(NumSub(NumSub(Num(call.W), call.left), Num(call.w)),
                 NumSub(Num(call.W), call.startX))
        /\ NumEQ(call.top, call.startY)

====
